---- MODULE Spec2Model ----
(***************************************************************************)
(* A model of the minsketch count-min sketch library: the sketch tables    *)
(* (list-backed, and the array, numpy and bit-packed tables with counters  *)
(* of a fixed width), the naive and conservative update strategies, the    *)
(* lossy window strategy, the top-N tracker (min-heap plus lookup map) of  *)
(* TopNCountMinSketch, the queries of TopNCountMinSketch and               *)
(* CountMeanMinSketch, the universal hash function generator with the      *)
(* naive and double hashing strategies, the four sketch tables side by     *)
(* side, the multi-copy sketch MultiHashPairTopNCMSketch and the           *)
(* SketchCounterHybrid wrapper.                                            *)
(***************************************************************************)
EXTENDS Integers, Sequences, FiniteSets, TLC

(***************************************************************************)
(* The sketches and streams explored.                                      *)
(***************************************************************************)
\* the items a, b, c of the documented scenarios
Items == {1, 2, 3}

\* the counts passed to insert
Counts == {-1, 0, 1}

\* the table sizes of the sketches with hash collisions
Depths == {1, 2}
Widths == {1, 2}

\* the largest top-N capacity of the sketches with hash collisions
MaxN == 1

\* every stream of at most MaxInserts inserts is explored
MaxInserts == 2

\* the largest lossy window size 1 / gamma
MaxWindow == 1

\* the integers handed to the hashing strategies as items
HashItems == {-2, -1, 0, 1, 2}

\* the table sizes of the hashing strategies built from a depth and a width
HashDepths == {2, 3}
HashWidths == {2, 3, 4}

\* the sizes HashPairCMSketch computes, for epsilon = 0.5 and epsilon = 0.1:
\* base = ceil(2e / epsilon), depth = ceil(ln(1 / (epsilon - epsilon / 2e^2)))
HashPairSizes == {[base |-> 11, depth |-> 1], [base |-> 55, depth |-> 3]}

\* the most functions drawn from one generator
MaxDraws == 4

VARIABLES
    depth,          \* table.depth
    width,          \* table.width
    hashes,         \* hashes[x][i]: column of item x in row i (self.hash(x))
    updater,        \* "naive" or "conservative" (self.updater)
    lossy_kind,     \* "none", or the threshold function of the lossy strategy
    window_size,    \* LossyUpdateStrategy.window_size
    lossy_count,    \* LossyUpdateStrategy.count
    window_count,   \* LossyUpdateStrategy.window_count
    table,          \* table.table[i][j]
    total,          \* table.total
    n,              \* TopNCountMinSketch.n
    heap,           \* heap.heap: a list of references to pairs
    heap_full,      \* TopNCountMinSketch.heap_full
    top_n,          \* top_n: item -> reference to its pair
    pairs,          \* the [count, item] list objects, by reference
    true_count,     \* history: sum of the counts inserted for each item
    last_est,       \* history: value returned by the latest insert of an item
    last_call,      \* history: the latest insert call and its outcome
    least_count,    \* history: the least count passed to insert so far
    inserts,        \* history: number of insert calls so far
    script,         \* history: progress along the documented streams
    twin,           \* a second sketch with naive update, fed the same inserts
    a_set,          \* UniversalHashFunctionGenerator.a_set (None left out)
    b_set,          \* UniversalHashFunctionGenerator.b_set (None left out)
    functions,      \* the (a, b) of the functions the generator has returned
    hash_kind,      \* "naive" or "double": the hashing strategy built
    hash_out,       \* the latest call of a hashing strategy and its result
    table_class,    \* "list", "array", "numpy" or "bitarray" (table_class)
    counter_size,   \* bits of a counter of a fixed-width table, 0 for "list"
    sketch_class,   \* "TopNCountMinSketch" or "CountMeanMinSketch"
    query,          \* the outcome of the latest operation when it was a query
    backends,       \* an array, a numpy and a bit-packed table, side by side
    table_call,     \* history: the latest call on the tables and what it gave
    sketches,       \* MultiHashPairTopNCMSketch.sketches: the copies
    hybrid          \* SketchCounterHybrid: counter, current_batch, batch_size

vars == << depth, width, hashes, updater, lossy_kind, window_size, lossy_count,
           window_count, table, total, n, heap, heap_full, top_n, pairs,
           true_count, last_est, last_call, least_count, inserts, script,
           twin, a_set, b_set, functions, hash_kind, hash_out, table_class,
           counter_size, sketch_class, query, backends, table_call,
           sketches, hybrid >>

\* the variables of the tables kept side by side, of the multi-copy sketch
\* and of the hybrid
wrapper_vars == << backends, table_call, sketches, hybrid >>

\* the variables of the hash function generator and the hashing strategies
hash_vars == << a_set, b_set, functions, hash_kind, hash_out >>

\* the variables of a sketch
sketch_vars == << depth, width, hashes, updater, lossy_kind, window_size,
                  lossy_count, window_count, table, total, n, heap, heap_full,
                  top_n, pairs, true_count, last_est, last_call, least_count,
                  inserts, script, twin, table_class, counter_size,
                  sketch_class, query >>

(***************************************************************************)
(* Small helpers.                                                          *)
(***************************************************************************)
Min2(a, b) == IF a <= b THEN a ELSE b

RECURSIVE SeqMin(_)
SeqMin(s) == IF Len(s) = 1 THEN s[1] ELSE Min2(s[1], SeqMin(Tail(s)))

RECURSIVE SumOver(_, _)
SumOver(f, S) ==
    IF S = {} THEN 0
    ELSE LET x == CHOOSE y \in S : TRUE IN f[x] + SumOver(f, S \ {x})


(***************************************************************************)
(* Sketch table (list-backed).                                             *)
(***************************************************************************)
\* SketchTable.get
TableGet(t, i, j) == t[i][j]

\* SketchTable.set
TableSet(t, i, j, v) == [t EXCEPT ![i][j] = v]

\* an increment that stores the value instead of adding it
TableIncrementStore(tt, i, j, v) ==
    [table |-> [tt.table EXCEPT ![i][j] = v],
     total |-> tt.total + v]

\* SketchTable.increment on the record tt = [table, total]
TableIncrement(tt, i, j, v) ==
    [table |-> [tt.table EXCEPT ![i][j] = @ + v],
     total |-> tt.total + v]

\* a bound is <<v>> for the number v and << >> for float('inf')
POSITIVE_INFINITY == << >>

\* lower_bound < item <= upper_bound
InBounds(item, lower_bound, upper_bound) ==
    /\ lower_bound < item
    /\ (upper_bound = POSITIVE_INFINITY \/ item <= upper_bound[1])

\* a decrement_all that writes the decrement back and ignores the lower bound
DecrementAllNoFloor(t, upper_bound, lower_bound) ==
    [i \in DOMAIN t |->
        [j \in DOMAIN t[i] |->
            IF upper_bound = POSITIVE_INFINITY \/ t[i][j] <= upper_bound[1]
            THEN t[i][j] - 1
            ELSE t[i][j]]]

\* SketchTable.decrement_all: "for item in self: ... item -= 1" rebinds the
\* loop variable to a new integer and never writes it back to the table
DecrementAll(t, upper_bound, lower_bound) ==
    [i \in DOMAIN t |->
        [j \in DOMAIN t[i] |->
            IF InBounds(t[i][j], lower_bound, upper_bound)
            THEN t[i][j]
            ELSE t[i][j]]]

(***************************************************************************)
(* Update strategies: each returns the new table, the new total and the    *)
(* value returned to the caller (raised = TRUE when it raises ValueError   *)
(* and returns nothing).                                                   *)
(***************************************************************************)
\* NaiveUpdateStrategy.__call__, rows i..d: the list of table.increment(...)
RECURSIVE NaiveRows(_, _, _, _, _)
NaiveRows(tt, h, count, i, d) ==
    IF i > d THEN [table |-> tt.table, total |-> tt.total, values |-> << >>]
    ELSE LET inc == TableIncrement(tt, i, h[i], count)
             rest == NaiveRows(inc, h, count, i + 1, d)
         IN [rest EXCEPT !.values = << TableGet(inc.table, i, h[i]) >> \o @]

\* a naive update that returns the first row's new value
NaiveUpdateFirstRow(t, tot, h, count, d) ==
    LET r == NaiveRows([table |-> t, total |-> tot], h, count, 1, d)
    IN [table |-> r.table, total |-> r.total, raised |-> FALSE,
        ret |-> r.values[1]]

NaiveUpdate(t, tot, h, count, d) ==
    LET r == NaiveRows([table |-> t, total |-> tot], h, count, 1, d)
    IN [table |-> r.table, total |-> r.total, raised |-> FALSE,
        ret |-> SeqMin(r.values)]

\* a conservative update that writes the new minimum into every row
ConservativeUpdateAllRows(t, tot, h, count, d) ==
    IF 0 > count
    THEN [table |-> t, total |-> tot, raised |-> TRUE, ret |-> 0]
    ELSE LET current_values == [i \in 1..d |-> TableGet(t, i, h[i])]
             new_current_min == SeqMin(current_values) + count
         IN [table |-> [i \in 1..d |->
                           TableSet(t, i, h[i], new_current_min)[i]],
             total |-> tot, raised |-> FALSE, ret |-> new_current_min]

\* a conservative update that starts from the largest current value
ConservativeUpdateMax(t, tot, h, count, d) ==
    IF 0 > count
    THEN [table |-> t, total |-> tot, raised |-> TRUE, ret |-> 0]
    ELSE LET current_values == [i \in 1..d |-> TableGet(t, i, h[i])]
             new_current_min == -SeqMin([i \in 1..d |-> -current_values[i]])
                                + count
         IN [table |-> [i \in 1..d |->
                           IF current_values[i] < new_current_min
                           THEN TableSet(t, i, h[i], new_current_min)[i]
                           ELSE t[i]],
             total |-> tot, raised |-> FALSE, ret |-> new_current_min]

\* ConservativeUpdateStrategy.__call__
ConservativeUpdate(t, tot, h, count, d) ==
    IF 0 > count
    THEN [table |-> t, total |-> tot, raised |-> TRUE, ret |-> 0]
    ELSE LET current_values == [i \in 1..d |-> TableGet(t, i, h[i])]
             new_current_min == SeqMin(current_values) + count
         IN [table |-> [i \in 1..d |->
                           IF current_values[i] < new_current_min
                           THEN TableSet(t, i, h[i], new_current_min)[i]
                           ELSE t[i]],
             total |-> tot, raised |-> FALSE, ret |-> new_current_min]

\* an updater that is conservative whatever strategy the sketch was given
UpdateConservatively(u, t, tot, h, count, d) ==
    ConservativeUpdate(t, tot, h, count, d)

\* self.updater(self.table, hashes, count)
Update(u, t, tot, h, count, d) ==
    IF u = "naive" THEN NaiveUpdate(t, tot, h, count, d)
    ELSE ConservativeUpdate(t, tot, h, count, d)

\* CountMinSketch.get
Get(t, h, d) == SeqMin([i \in 1..d |-> TableGet(t, i, h[i])])

(***************************************************************************)
(* The tables with counters of a fixed width: ArrayBackedSketchTable        *)
(* ("array"), NumpyMatrixBackedSketchTable ("numpy") and                    *)
(* BitarrayBackedSketchTable ("bitarray"). A write that raises leaves what  *)
(* was written before it in place.                                         *)
(***************************************************************************)
\* whether a counter of the table can be given the value v without an error:
\* array.array raises OverflowError outside 0..2^bits-1, numpy stores any
\* value, BitarrayBackedSketchTable.set raises ValueError from 2^bits on and
\* struct.pack raises below 0
Fits(tc, bits, v) ==
    IF tc = "array" \/ tc = "bitarray" THEN 0 <= v /\ v < 2 ^ bits
    ELSE TRUE

\* the value a counter holds once v is stored: a numpy unsigned integer
\* keeps the low bits
Stored(tc, bits, v) == IF tc = "numpy" THEN v % (2 ^ bits) ELSE v

\* set of the table class tc
SizedSet(tc, bits, t, i, j, v) ==
    IF Fits(tc, bits, v)
    THEN [table |-> TableSet(t, i, j, Stored(tc, bits, v)), raised |-> FALSE]
    ELSE [table |-> t, raised |-> TRUE]

\* increment of the table class tc: SketchTable.increment adds value to
\* total and then to the counter; BitarrayBackedSketchTable.increment adds 1
\* to total and then sets the counter
SizedIncrement(tc, bits, tt, i, j, v) ==
    LET value == TableGet(tt.table, i, j) + v
        st == SizedSet(tc, bits, tt.table, i, j, value)
    IN [table |-> st.table,
        total |-> IF tc = "bitarray" THEN tt.total + 1 ELSE tt.total + v,
        raised |-> st.raised,
        value |-> IF tc = "bitarray" THEN value
                  ELSE TableGet(st.table, i, j)]

\* NaiveUpdateStrategy.__call__, rows i..d, up to the first increment that
\* raises
RECURSIVE SizedNaiveRows(_, _, _, _, _, _, _)
SizedNaiveRows(tc, bits, tt, h, count, i, d) ==
    IF i > d
    THEN [table |-> tt.table, total |-> tt.total, raised |-> FALSE,
          values |-> << >>]
    ELSE LET inc == SizedIncrement(tc, bits, tt, i, h[i], count)
         IN IF inc.raised
            THEN [table |-> inc.table, total |-> inc.total, raised |-> TRUE,
                  values |-> << >>]
            ELSE LET rest == SizedNaiveRows(tc, bits, inc, h, count, i + 1, d)
                 IN [rest EXCEPT !.values = << inc.value >> \o @]

SizedNaiveUpdate(tc, bits, t, tot, h, count, d) ==
    LET r == SizedNaiveRows(tc, bits, [table |-> t, total |-> tot], h, count,
                            1, d)
    IN [table |-> r.table, total |-> r.total, raised |-> r.raised,
        ret |-> IF r.raised THEN 0 ELSE SeqMin(r.values)]

\* ConservativeUpdateStrategy.__call__: the sets of rows i..d, up to the
\* first that raises
RECURSIVE SizedConservativeRows(_, _, _, _, _, _, _, _)
SizedConservativeRows(tc, bits, t, h, current_values, new_current_min, i, d) ==
    IF i > d THEN [table |-> t, raised |-> FALSE]
    ELSE IF current_values[i] < new_current_min
         THEN LET st == SizedSet(tc, bits, t, i, h[i], new_current_min)
              IN IF st.raised THEN st
                 ELSE SizedConservativeRows(tc, bits, st.table, h,
                                            current_values, new_current_min,
                                            i + 1, d)
         ELSE SizedConservativeRows(tc, bits, t, h, current_values,
                                    new_current_min, i + 1, d)

SizedConservativeUpdate(tc, bits, t, tot, h, count, d) ==
    IF 0 > count
    THEN [table |-> t, total |-> tot, raised |-> TRUE, ret |-> 0]
    ELSE LET current_values == [i \in 1..d |-> TableGet(t, i, h[i])]
             new_current_min == SeqMin(current_values) + count
             r == SizedConservativeRows(tc, bits, t, h, current_values,
                                        new_current_min, 1, d)
         IN [table |-> r.table, total |-> tot, raised |-> r.raised,
             ret |-> IF r.raised THEN 0 ELSE new_current_min]

\* self.updater(self.table, hashes, count) on a table of class tc
TableUpdate(tc, bits, u, t, tot, h, count, d) ==
    IF tc = "list" THEN Update(u, t, tot, h, count, d)
    ELSE IF u = "naive" THEN SizedNaiveUpdate(tc, bits, t, tot, h, count, d)
    ELSE SizedConservativeUpdate(tc, bits, t, tot, h, count, d)

(***************************************************************************)
(* Lossy strategy.                                                         *)
(***************************************************************************)
RECURSIVE ISqrt(_, _)
ISqrt(x, r) == IF (r + 1) * (r + 1) > x THEN r ELSE ISqrt(x, r + 1)

\* no_threshold_func, one_threshold_func, window_size_threshold_func,
\* sqrt_window_size_threshold_func (an integer counter is <= wc ** 0.5
\* exactly when it is <= the integer square root of wc)
ThresholdFunc(kind, wc) ==
    CASE kind = "LCU-ALL" -> POSITIVE_INFINITY
      [] kind = "LCU-1" -> << 1 >>
      [] kind = "LCU-WS" -> << wc >>
      [] kind = "LCU-SWS" -> << ISqrt(wc, 0) >>

\* self.lossy(self.table): NoLossyUpdateStrategy.__call__ does nothing,
\* LossyUpdateStrategy.__call__ counts the call and closes a window
LossyCall(kind, ws, cnt, wc, t) ==
    IF kind = "none"
    THEN [count |-> cnt, window_count |-> wc, table |-> t]
    ELSE IF cnt + 1 > ws
         THEN [count |-> 0, window_count |-> wc + 1,
               table |-> DecrementAll(t, ThresholdFunc(kind, wc + 1), 0)]
         ELSE [count |-> cnt + 1, window_count |-> wc, table |-> t]

(***************************************************************************)
(* Min-heap of references to [count, item] pairs (heapq on a Python list;  *)
(* positions are 0-based as in heapq, heap[p + 1] is the entry at p).      *)
(***************************************************************************)
\* comparison of two [count, item] lists
PairLt(ps, a, b) ==
    \/ ps[a][1] < ps[b][1]
    \/ ps[a][1] = ps[b][1] /\ ps[a][2] < ps[b][2]

\* heapq._siftdown
RECURSIVE SiftDownLoop(_, _, _, _, _)
SiftDownLoop(ps, hp, startpos, pos, newitem) ==
    LET parentpos == (pos - 1) \div 2
    IN IF pos > startpos /\ PairLt(ps, newitem, hp[parentpos + 1])
       THEN SiftDownLoop(ps, [hp EXCEPT ![pos + 1] = hp[parentpos + 1]],
                         startpos, parentpos, newitem)
       ELSE [hp EXCEPT ![pos + 1] = newitem]

SiftDown(ps, hp, startpos, pos) ==
    SiftDownLoop(ps, hp, startpos, pos, hp[pos + 1])

\* heapq._siftup
RECURSIVE SiftUpLoop(_, _, _, _)
SiftUpLoop(ps, hp, pos, childpos) ==
    LET endpos == Len(hp)
        rightpos == childpos + 1
        c == IF rightpos < endpos
                /\ ~PairLt(ps, hp[childpos + 1], hp[rightpos + 1])
             THEN rightpos ELSE childpos
    IN IF childpos < endpos
       THEN SiftUpLoop(ps, [hp EXCEPT ![pos + 1] = hp[c + 1]], c, 2 * c + 1)
       ELSE [heap |-> hp, pos |-> pos]

SiftUp(ps, hp, pos) ==
    LET newitem == hp[pos + 1]
        r == SiftUpLoop(ps, hp, pos, 2 * pos + 1)
    IN SiftDown(ps, [r.heap EXCEPT ![r.pos + 1] = newitem], pos, r.pos)

\* MinHeap.heapify
RECURSIVE HeapifyFrom(_, _, _)
HeapifyFrom(ps, hp, i) ==
    IF i < 0 THEN hp ELSE HeapifyFrom(ps, SiftUp(ps, hp, i), i - 1)

\* a heapify that leaves the list as it is
HeapifySkip(ps, hp) == hp

Heapify(ps, hp) == HeapifyFrom(ps, hp, (Len(hp) \div 2) - 1)

\* MinHeap.push
HeapPush(ps, hp, ref) == SiftDown(ps, Append(hp, ref), 0, Len(hp))

\* a push_pop that removes the last entry of the list instead of the root
HeapPushPopLast(ps, hp, ref) ==
    IF Len(hp) > 0 /\ PairLt(ps, hp[1], ref)
    THEN [heap |-> Heapify(ps, [hp EXCEPT ![Len(hp)] = ref]),
          item |-> hp[Len(hp)]]
    ELSE [heap |-> hp, item |-> ref]

\* MinHeap.push_pop: the new heap and the returned entry
HeapPushPop(ps, hp, ref) ==
    IF Len(hp) > 0 /\ PairLt(ps, hp[1], ref)
    THEN [heap |-> SiftUp(ps, [hp EXCEPT ![1] = ref], 0), item |-> hp[1]]
    ELSE [heap |-> hp, item |-> ref]

\* MinHeap.peek
HeapPeek(ps, hp) == ps[hp[1]]

(***************************************************************************)
(* Top-N tracker.                                                          *)
(***************************************************************************)
Range(f) == {f[x] : x \in DOMAIN f}

\* a deletion that deletes nothing
RestrictKeep(f, S) == f

Restrict(f, S) == [x \in S |-> f[x]]

\* a reference for a newly created list object
NewRef(ps) == CHOOSE r \in 1..(Cardinality(DOMAIN ps) + 1) : r \notin DOMAIN ps

\* list objects that neither the heap nor the map refers to are gone
Collect(ps, hp, tn) == Restrict(ps, DOMAIN ps \cap (Range(hp) \cup Range(tn)))

\* an update that never refreshes the pair of an item already tracked
UpdateTopNNoRefresh(tr, cap, item, new_min_count) ==
    IF ~tr.heap_full \/ new_min_count > HeapPeek(tr.pairs, tr.heap)[1]
    THEN IF item \in DOMAIN tr.top_n
         THEN tr
         ELSE LET pair == NewRef(tr.pairs)
                  ps == (pair :> << new_min_count, item >>) @@ tr.pairs
                  tn == (item :> pair) @@ tr.top_n
              IN IF tr.heap_full
                 THEN LET pp == HeapPushPop(ps, tr.heap, pair)
                          old_pair == pp.item
                          tn2 == Restrict(tn, DOMAIN tn \ {ps[old_pair][2]})
                      IN [heap |-> pp.heap, heap_full |-> TRUE, top_n |-> tn2,
                          pairs |-> Collect(ps, pp.heap, tn2)]
                 ELSE LET hp == HeapPush(ps, tr.heap, pair)
                      IN [heap |-> hp,
                          heap_full |-> IF Len(hp) = cap THEN TRUE
                                        ELSE tr.heap_full,
                          top_n |-> tn, pairs |-> ps]
    ELSE tr

\* TopNCountMinSketch._update_top_n on the tracker tr = [heap, heap_full,
\* top_n, pairs] of capacity cap
UpdateTopN(tr, cap, item, new_min_count) ==
    IF ~tr.heap_full \/ new_min_count > HeapPeek(tr.pairs, tr.heap)[1]
    THEN IF item \in DOMAIN tr.top_n
         THEN LET existing_pair == tr.top_n[item]
                  ps == [tr.pairs EXCEPT ![existing_pair][1] = new_min_count]
              IN [tr EXCEPT !.pairs = ps, !.heap = Heapify(ps, tr.heap)]
         ELSE LET pair == NewRef(tr.pairs)
                  ps == (pair :> << new_min_count, item >>) @@ tr.pairs
                  tn == (item :> pair) @@ tr.top_n
              IN IF tr.heap_full
                 THEN LET pp == HeapPushPop(ps, tr.heap, pair)
                          old_pair == pp.item
                          tn2 == Restrict(tn, DOMAIN tn \ {ps[old_pair][2]})
                      IN [heap |-> pp.heap, heap_full |-> TRUE, top_n |-> tn2,
                          pairs |-> Collect(ps, pp.heap, tn2)]
                 ELSE LET hp == HeapPush(ps, tr.heap, pair)
                      IN [heap |-> hp,
                          heap_full |-> IF Len(hp) = cap THEN TRUE
                                        ELSE tr.heap_full,
                          top_n |-> tn, pairs |-> ps]
    ELSE tr

\* a sort in ascending order
RECURSIVE SortedAsc(_)
SortedAsc(S) ==
    IF S = {} THEN << >>
    ELSE LET m == CHOOSE p \in S : \A q \in S :
                      \/ p[1] < q[1]
                      \/ p[1] = q[1] /\ p[2] <= q[2]
         IN << m >> \o SortedAsc(S \ {m})

\* MinHeap.n_smallest: heapq.nsmallest(n, self.heap), the n least entries of
\* the heap in ascending order
NSmallest(ps, hp, k) ==
    LET sorted == SortedAsc({ps[hp[i]] : i \in 1..Len(hp)})
    IN SubSeq(sorted, 1, Min2(k, Len(sorted)))

\* MinHeap.n_largest: heapq.nsmallest(n, self.heap) as well
NLargest(ps, hp, k) == NSmallest(ps, hp, k)

\* TopNCountMinSketch.most_common: k = << >> stands for k = None
RECURSIVE SortedDesc(_)
SortedDesc(S) ==
    IF S = {} THEN << >>
    ELSE LET m == CHOOSE p \in S : \A q \in S :
                      \/ q[1] < p[1]
                      \/ q[1] = p[1] /\ q[2] <= p[2]
         IN << m >> \o SortedDesc(S \ {m})

MostCommon(tn, ps, cap, k) ==
    LET kk == IF k = << >> \/ k[1] > cap THEN cap ELSE k[1]
        sorted == SortedDesc({ps[tn[x]] : x \in DOMAIN tn})
        cut == SubSeq(sorted, 1, Min2(kk, Len(sorted)))
    IN [i \in 1..Len(cut) |-> << cut[i][2], cut[i][1] >>]

(***************************************************************************)
(* Construction.                                                           *)
(***************************************************************************)
\* the hashing strategy of a depth d, width w sketch: d column indices in
\* 0..w-1 for every item, fixed when the hash functions are drawn. No
\* operation depends on which column of a row is which, so the columns of
\* each row are named in the order in which the items 1, 2, ... first use
\* them: item 1 has column 0 in every row.
HashChoices(d, w) ==
    {h \in [Items -> [1..d -> 0..(w - 1)]] :
        \A i \in 1..d : \A x \in Items :
            h[x][i] <= Cardinality({h[y][i] : y \in {z \in Items : z < x}})}

\* no two items share a counter
NoCollisions(h, d) ==
    \A x \in Items, y \in Items : x # y => \A i \in 1..d : h[x][i] # h[y][i]

LossyKinds == {"LCU-ALL", "LCU-1", "LCU-WS", "LCU-SWS"}

\* the streams of the documented scenarios, items a = 1, b = 2, c = 3
StreamS2 == << 1, 1, 1, 2, 2, 3 >>
StreamS3 == << 1, 1, 2, 2, 2, 3, 3, 3, 3 >>
StreamS5 == << 1, 1, 1, 1, 1, 1, 1, 1, 1, 1, 2, 2, 2 >>

\* the lossy strategy of scenario S5: LCU-1 with gamma = 0.25
S5Lossy == lossy_kind = "LCU-1" /\ window_size = 4

\* ListBackedSketchTable.__init__
EmptyTable(d, w) == [i \in 1..d |-> [j \in 0..(w - 1) |-> 0]]

\* what every construction sets: SketchTable.__init__, _init_top_n,
\* LossyUpdateStrategy.__init__
InitCommon ==
    /\ lossy_count = 0
    /\ window_count = 0
    /\ table = EmptyTable(depth, width)
    /\ total = 0
    /\ heap = << >>
    /\ heap_full = FALSE
    /\ top_n = << >>
    /\ pairs = << >>
    /\ true_count = [x \in Items |-> 0]
    /\ last_est = << >>
    /\ last_call = [item |-> 0, count |-> 0, ret |-> 0, raised |-> FALSE]
    /\ least_count = 1
    /\ inserts = 0
    /\ script = [s2 |-> 0, s3 |-> 0, s5 |-> IF S5Lossy THEN 0 ELSE -1]
    /\ twin = [table |-> EmptyTable(depth, width), total |-> 0]

\* TopNCountMinSketch.__init__ with small tables, where items collide: any
\* hash functions, update strategy and lossy strategy
InitGeneral ==
    /\ depth \in Depths
    /\ width \in Widths
    /\ hashes \in HashChoices(depth, width)
    /\ updater \in {"naive", "conservative"}
    /\ \/ lossy_kind = "none" /\ window_size = 0
       \/ lossy_kind \in LossyKinds /\ window_size \in 1..MaxWindow
    /\ n \in 1..MaxN
    /\ InitCommon

\* the sketches of the documented scenarios: no lossy strategy, a counter of
\* its own for every item in every row, and room for two items or for all
InitScenario ==
    /\ depth \in Depths
    /\ width = Cardinality(Items)
    /\ hashes \in {h \in HashChoices(depth, width) : NoCollisions(h, depth)}
    /\ updater \in {"naive", "conservative"}
    /\ lossy_kind = "none" /\ window_size = 0
    /\ n \in {2, Cardinality(Items)}
    /\ InitCommon

\* the sketch of scenario S5: LossyUpdateStrategy(0.25, one_threshold_func),
\* items a and b sharing no counter
InitScenarioLossy ==
    /\ depth \in Depths
    /\ width = 2
    /\ hashes \in {h \in HashChoices(depth, width) :
                      \A i \in 1..depth : h[1][i] # h[2][i]}
    /\ updater \in {"naive", "conservative"}
    /\ lossy_kind = "LCU-1" /\ window_size = 4
    /\ n = 1
    /\ InitCommon

\* UniversalHashFunctionGenerator.__init__, no function drawn yet
InitGenerator ==
    /\ a_set = {}
    /\ b_set = {}
    /\ functions = << >>
    /\ hash_out = [called |-> FALSE, item |-> 0, copy |-> 0, cols |-> << >>]

\* table_class = ListBackedSketchTable, the default
InitListBacked ==
    /\ table_class = "list"
    /\ counter_size = 0

\* no table built beside the sketch's own, no call made on it
NoTableCall == [op |-> "none", row |-> 0, col |-> 0, value |-> 0,
                ret |-> << >>, calls |-> 0, peak |-> 0]

\* no hybrid built around the sketch
NoHybrid == [counter |-> << >>, current_batch |-> 0, batch_size |-> 0,
             digested |-> [x \in Items |-> 0], ret |-> << >>]

\* a sketch on its own: no table beside its own, no copies, no hybrid
InitAlone ==
    /\ backends = << >>
    /\ table_call = NoTableCall
    /\ sketches = << >>
    /\ hybrid = NoHybrid

\* no query made
NoQuery == [op |-> "none", fresh |-> FALSE, raised |-> FALSE, twice |-> 0]

\* a TopNCountMinSketch, not queried yet
InitTopN ==
    /\ sketch_class = "TopNCountMinSketch"
    /\ query = NoQuery

Init ==
    /\ InitGeneral \/ InitScenario \/ InitScenarioLossy
    /\ InitListBacked
    /\ InitTopN
    /\ hash_kind = "naive"
    /\ InitGenerator
    /\ InitAlone

(***************************************************************************)
(* Operations.                                                             *)
(***************************************************************************)
\* position in a documented stream after one more insert, -1 once the
\* inserts made differ from the stream
Advance(pos, stream, item, count) ==
    IF pos >= 0 /\ pos < Len(stream) /\ count = 1 /\ stream[pos + 1] = item
    THEN pos + 1 ELSE -1

Tracker == [heap |-> heap, heap_full |-> heap_full, top_n |-> top_n,
            pairs |-> pairs]

\* TopNCountMinSketch.insert(item, count), CountMinSketch.insert included.
\* Every stream of at most MaxInserts inserts is explored, and the documented
\* streams to their end.
Insert(item, count) ==
    LET s2 == Advance(script.s2, StreamS2, item, count)
        s3 == Advance(script.s3, StreamS3, item, count)
        s5 == Advance(script.s5, StreamS5, item, count)
        h == hashes[item]
        ls == LossyCall(lossy_kind, window_size, lossy_count, window_count,
                        table)
        up == TableUpdate(table_class, counter_size, updater, ls.table,
                          total, h, count, depth)
        tr == UpdateTopN(Tracker, n, item, up.ret)
    IN /\ inserts < MaxInserts \/ s2 >= 0 \/ s3 >= 0 \/ s5 >= 0
       /\ inserts' = inserts + 1
       /\ script' = [s2 |-> s2, s3 |-> s3, s5 |-> s5]
       /\ lossy_count' = ls.count
       /\ window_count' = ls.window_count
       /\ table' = up.table
       /\ total' = up.total
       /\ last_call' = [item |-> item, count |-> count, ret |-> up.ret,
                        raised |-> up.raised]
       /\ least_count' = Min2(least_count, count)
       /\ IF up.raised
          THEN UNCHANGED << heap, heap_full, top_n, pairs, true_count,
                            last_est >>
          ELSE /\ heap' = tr.heap
               /\ heap_full' = tr.heap_full
               /\ top_n' = tr.top_n
               /\ pairs' = tr.pairs
               /\ true_count' = [true_count EXCEPT ![item] = @ + count]
               /\ last_est' = (item :> up.ret) @@ last_est
       /\ UNCHANGED << depth, width, hashes, updater, lossy_kind,
                       window_size, n, table_class, counter_size,
                       sketch_class >>

Next ==
    \E item \in Items, count \in Counts :
        Insert(item, count) /\ UNCHANGED twin /\ UNCHANGED hash_vars
            /\ UNCHANGED query /\ UNCHANGED wrapper_vars

Spec == Init /\ [][Next]_vars

(***************************************************************************)
(* Two sketches of the same depth, width and hash functions, one with      *)
(* conservative update (the sketch proper) and one with naive update       *)
(* (twin), fed the same inserts, as test_update_strategies builds them.    *)
(***************************************************************************)
InitPair ==
    /\ Init
    /\ updater = "conservative"
    /\ lossy_kind = "none"

InsertBoth(item, count) ==
    /\ count >= 0
    /\ Insert(item, count)
    /\ twin' = LET up == NaiveUpdate(twin.table, twin.total, hashes[item],
                                     count, depth)
               IN [table |-> up.table, total |-> up.total]

NextPair ==
    \E item \in Items, count \in Counts :
        InsertBoth(item, count) /\ UNCHANGED hash_vars /\ UNCHANGED query
            /\ UNCHANGED wrapper_vars

SpecPair == InitPair /\ [][NextPair]_vars

(***************************************************************************)
(* Sketches over the tables with counters of a fixed width, fed counts     *)
(* that fill a counter: array.array('H') and numpy.uint16 counters of 16   *)
(* bits, bit-packed counters of 8 or 16 bits. The numpy table is explored  *)
(* under naive update.                                                     *)
(***************************************************************************)
TableClasses ==
    {[class |-> "array", bits |-> 16], [class |-> "numpy", bits |-> 16],
     [class |-> "bitarray", bits |-> 8], [class |-> "bitarray", bits |-> 16]}

\* the counts inserted: 1 and the largest value of a counter
SizedCounts(bits) == {1, 2 ^ bits - 1}

InitTables ==
    /\ depth \in Depths
    /\ width \in Widths
    /\ hashes \in HashChoices(depth, width)
    /\ updater \in {"naive", "conservative"}
    /\ lossy_kind = "none" /\ window_size = 0
    /\ n \in 1..MaxN
    /\ InitCommon
    /\ \E tc \in TableClasses :
           /\ table_class = tc.class
           /\ counter_size = tc.bits
    /\ table_class = "numpy" => updater = "naive"
    /\ InitTopN
    /\ hash_kind = "naive"
    /\ InitGenerator
    /\ InitAlone

NextTables ==
    \E item \in Items, count \in SizedCounts(counter_size) :
        Insert(item, count) /\ UNCHANGED twin /\ UNCHANGED hash_vars
            /\ UNCHANGED query /\ UNCHANGED wrapper_vars

SpecTables == InitTables /\ [][NextTables]_vars

(***************************************************************************)
(* Queries: get, inner_product_query and most_common of                    *)
(* TopNCountMinSketch, get and most_common of CountMeanMinSketch. A query  *)
(* records whether it raised and twice the number it returned (the median  *)
(* of an even number of values is a half-integer).                         *)
(***************************************************************************)
\* CountMinSketch.inner_product_query
InnerProductQuery(t, h1, h2, d) ==
    SeqMin([i \in 1..d |-> TableGet(t, i, h1[i]) * TableGet(t, i, h2[i])])

\* sorted(values)
RECURSIVE Sorted(_)
Sorted(s) ==
    IF Len(s) = 0 THEN << >>
    ELSE LET k == CHOOSE i \in 1..Len(s) : \A j \in 1..Len(s) : s[i] <= s[j]
         IN << s[k] >> \o Sorted([i \in 1..(Len(s) - 1) |->
                                     IF i < k THEN s[i] ELSE s[i + 1]])

\* twice numpy.median of a sorted list
TwiceMedian(s) ==
    IF Len(s) % 2 = 1 THEN 2 * s[(Len(s) + 1) \div 2]
    ELSE s[Len(s) \div 2] + s[Len(s) \div 2 + 1]

\* count_mean_error_estimates of the naive strategy (baseline table.total)
\* and of the conservative strategy (baseline the sum of the row), with
\* _error_estimates: integer division by width - 1
ErrorEstimates(u, t, tot, values, d, w) ==
    LET baselines == [i \in 1..d |->
                         IF u = "naive" THEN tot
                         ELSE SumOver(t[i], DOMAIN t[i])]
    IN [i \in 1..d |-> (baselines[i] - values[i]) \div (w - 1)]

\* a get that returns the median of the adjusted values alone
CountMeanGetMedian(u, t, tot, h, d, w) ==
    IF w - 1 = 0 THEN [raised |-> TRUE, twice |-> 0]
    ELSE LET values == [i \in 1..d |-> TableGet(t, i, h[i])]
             error_estimates == ErrorEstimates(u, t, tot, values, d, w)
             adjusted == [i \in 1..d |-> values[i] - error_estimates[i]]
         IN [raised |-> FALSE, twice |-> TwiceMedian(Sorted(adjusted))]

\* CountMeanMinSketch.get: raises ZeroDivisionError when width is 1
CountMeanGet(u, t, tot, h, d, w) ==
    IF w - 1 = 0 THEN [raised |-> TRUE, twice |-> 0]
    ELSE LET values == [i \in 1..d |-> TableGet(t, i, h[i])]
             error_estimates == ErrorEstimates(u, t, tot, values, d, w)
             adjusted == [i \in 1..d |-> values[i] - error_estimates[i]]
         IN [raised |-> FALSE,
             twice |-> Min2(TwiceMedian(Sorted(adjusted)),
                            2 * SeqMin(values))]

\* CountMeanMinSketch.most_common: "for _, key in self.top_n" iterates the
\* keys of the map, the items, and unpacks each into two names, which raises
\* TypeError for an integer item; with no item tracked it returns []
CountMeanMostCommon(tn) ==
    [raised |-> DOMAIN tn # {}, result |-> << >>]

\* the widths of the queried sketches
QueryWidths == {2, 3}

\* sketches of either class with two or three columns and no lossy
\* strategy, or with two columns and LCU-1 (gamma = 1.0)
InitQuery ==
    /\ depth \in Depths
    /\ width \in QueryWidths
    /\ hashes \in HashChoices(depth, width)
    /\ updater \in {"naive", "conservative"}
    /\ \/ lossy_kind = "none" /\ window_size = 0
       \/ lossy_kind = "LCU-1" /\ window_size = 1 /\ width = 2
    /\ n = 1
    /\ InitCommon
    /\ InitListBacked
    /\ sketch_class \in {"TopNCountMinSketch", "CountMeanMinSketch"}
    /\ query = NoQuery
    /\ hash_kind = "naive"
    /\ InitGenerator
    /\ InitAlone

\* a query that counts as an item of the lossy window
AnswerCounted(op, fresh, raised, v) ==
    /\ query' = [op |-> op, fresh |-> fresh, raised |-> raised, twice |-> v]
    /\ lossy_count' = (lossy_count + 1) % (MaxWindow + 1)
    /\ UNCHANGED << depth, width, hashes, updater, lossy_kind, window_size,
                    window_count, table, total, n, heap, heap_full, top_n,
                    pairs, true_count, last_est, last_call, least_count,
                    inserts, script, twin, table_class, counter_size,
                    sketch_class >>
    /\ UNCHANGED hash_vars
    /\ UNCHANGED wrapper_vars

\* the query op has returned twice the number v or raised; fresh: it asked
\* for an item never inserted
Answer(op, fresh, raised, v) ==
    /\ query' = [op |-> op, fresh |-> fresh, raised |-> raised, twice |-> v]
    /\ UNCHANGED << depth, width, hashes, updater, lossy_kind, window_size,
                    lossy_count, window_count, table, total, n, heap,
                    heap_full, top_n, pairs, true_count, last_est, last_call,
                    least_count, inserts, script, twin, table_class,
                    counter_size, sketch_class >>
    /\ UNCHANGED hash_vars
    /\ UNCHANGED wrapper_vars

\* get(item) of the sketch's class
GetQuery(item) ==
    IF sketch_class = "CountMeanMinSketch"
    THEN LET r == CountMeanGet(updater, table, total, hashes[item], depth,
                               width)
         IN Answer("get", item \notin DOMAIN last_est, r.raised, r.twice)
    ELSE Answer("get", item \notin DOMAIN last_est, FALSE,
                2 * Get(table, hashes[item], depth))

\* inner_product_query(first_item, second_item), inherited by both classes
InnerProduct(first_item, second_item) ==
    Answer("inner_product", first_item \notin DOMAIN last_est, FALSE,
           2 * InnerProductQuery(table, hashes[first_item],
                                 hashes[second_item], depth))

\* most_common(k) of the sketch's class; the number recorded is the length
\* of the list returned
MostCommonQuery(k) ==
    IF sketch_class = "CountMeanMinSketch"
    THEN LET r == CountMeanMostCommon(top_n)
         IN Answer("most_common", FALSE, r.raised, 2 * Len(r.result))
    ELSE Answer("most_common", FALSE, FALSE,
                2 * Len(MostCommon(top_n, pairs, n, k)))

\* an insert with a count of 0 or more; what the latest query returned is
\* dropped
InsertQueried(item, count) ==
    /\ count >= 0
    /\ Insert(item, count)
    /\ query' = NoQuery
    /\ UNCHANGED twin
    /\ UNCHANGED hash_vars
    /\ UNCHANGED wrapper_vars

NextQuery ==
    \/ \E item \in Items, count \in Counts : InsertQueried(item, count)
    \/ \E item \in Items : GetQuery(item)
    \/ \E first_item \in Items, second_item \in Items :
           InnerProduct(first_item, second_item)
    \/ \E k \in {<< >>, << 1 >>} : MostCommonQuery(k)

SpecQuery == InitQuery /\ [][NextQuery]_vars

(***************************************************************************)
(* The universal hash function generator and the two hashing strategies.   *)
(* The prime of the source, 4294967291, is beyond the integers of the      *)
(* model checker; the family is explored for a small prime.                *)
(***************************************************************************)
ARBITRARY_LARGE_PRIME_NUMBER == 3

\* hash(item) of a Python int: the int itself, except hash(-1) = -2
PyHash(x) == IF x = -1 THEN -2 ELSE x

\* a hash function computed with a remainder that truncates toward zero
UniversalHashTruncated(f, m, x) ==
    LET Rem(v, k) == IF v >= 0 THEN v % k ELSE -((-v) % k)
    IN Rem(Rem(f.a * x + f.b, ARBITRARY_LARGE_PRIME_NUMBER), m)

\* the function returned by UniversalHashFunctionGenerator.__call__:
\* lambda x: ((a * x + b) % ARBITRARY_LARGE_PRIME_NUMBER) % self.m
UniversalHash(f, m, x) ==
    ((f.a * x + f.b) % ARBITRARY_LARGE_PRIME_NUMBER) % m

\* a generator that never redraws
AcceptedAlways(as, bs, a, b) == TRUE

\* the exit of the loop "while a in self.a_set and b in self.b_set"
Accepted(as, bs, a, b) == ~(a \in as /\ b \in bs)

\* NaiveHashingStrategy.__call__ with self.hashes = fs, generator of range m
NaiveHashingStrategy(fs, d, m, item) ==
    LET x == PyHash(item)
    IN [i \in 1..d |-> UniversalHash(fs[i], m, x)]

\* a double hashing whose step grows with the square of the row
DoubleHashingSquared(f1, f2, d, w, m, item) ==
    LET x == PyHash(item)
        first == UniversalHash(f1, m, x)
        second == UniversalHash(f2, m, x)
    IN [i \in 1..d |-> (first + (i - 1) * (i - 1) * second) % w]

\* DoubleHashingStrategy.__call__ with first_hash = f1, second_hash = f2
DoubleHashingStrategy(f1, f2, d, w, m, item) ==
    LET x == PyHash(item)
        first == UniversalHash(f1, m, x)
        second == UniversalHash(f2, m, x)
    IN [i \in 1..d |-> (first + (i - 1) * second) % w]

\* the range of the generator: the width for the naive strategy
\* (UniversalHashFunctionGenerator(width)), the prime for double hashing
GeneratorM == IF hash_kind = "naive" THEN width
              ELSE ARBITRARY_LARGE_PRIME_NUMBER

\* whether k is a prime number
IsPrime(k) == k >= 2 /\ \A q \in 2..(k - 1) : k % q # 0

\* gmpy2.next_prime(k): the least prime above k
RECURSIVE next_prime(_)
next_prime(k) == IF IsPrime(k + 1) THEN k + 1 ELSE next_prime(k + 1)

\* a hashing strategy of either kind over a fresh generator, built with a
\* depth and a width as CountMinSketch.__init__ builds it from the class
\* (hash_strategy(depth, width)), or with the sizes HashPairCMSketch.__init__
\* computes; the sketch variables stay as built
InitHash ==
    /\ hash_kind \in {"naive", "double"}
    /\ \/ depth \in HashDepths /\ width \in HashWidths
       \/ /\ hash_kind = "double"
          /\ \E size \in HashPairSizes :
                 /\ depth = size.depth
                 /\ width = next_prime(size.base)
    /\ hashes = [x \in Items |-> [i \in 1..depth |-> 0]]
    /\ updater = "naive"
    /\ lossy_kind = "none" /\ window_size = 0
    /\ n = 1
    /\ InitCommon
    /\ InitListBacked
    /\ InitTopN
    /\ InitGenerator
    /\ InitAlone

\* UniversalHashFunctionGenerator.__call__ returning the function (a, b);
\* the strategies draw their functions when they are built, before any call
Draw(a, b) ==
    /\ Len(functions) < MaxDraws
    /\ ~hash_out.called
    /\ Accepted(a_set, b_set, a, b)
    /\ a_set' = a_set \cup {a}
    /\ b_set' = b_set \cup {b}
    /\ functions' = Append(functions, [a |-> a, b |-> b])
    /\ UNCHANGED << hash_kind, hash_out >>

\* NaiveHashingStrategy.__call__(item): the strategy holds the first depth
\* functions drawn
NaiveCall(item) ==
    /\ hash_kind = "naive"
    /\ Len(functions) >= depth
    /\ hash_out' = [called |-> TRUE, item |-> item, copy |-> 1,
                    cols |-> NaiveHashingStrategy(functions, depth,
                                                  GeneratorM, item)]
    /\ UNCHANGED << a_set, b_set, functions, hash_kind >>

\* DoubleHashingStrategy.__call__(item) of copy k of a multi-copy sketch:
\* copy k drew the functions 2k - 1 and 2k of the shared generator
DoubleCall(item, k) ==
    /\ hash_kind = "double"
    /\ 2 * k <= Len(functions)
    /\ hash_out' = [called |-> TRUE, item |-> item, copy |-> k,
                    cols |-> DoubleHashingStrategy(functions[2 * k - 1],
                                                   functions[2 * k], depth,
                                                   width, GeneratorM, item)]
    /\ UNCHANGED << a_set, b_set, functions, hash_kind >>

NextHash ==
    /\ \/ \E a \in 1..(ARBITRARY_LARGE_PRIME_NUMBER - 1),
             b \in 0..(ARBITRARY_LARGE_PRIME_NUMBER - 1) : Draw(a, b)
       \/ \E item \in HashItems : NaiveCall(item)
       \/ \E item \in HashItems, k \in 1..(MaxDraws \div 2) :
              DoubleCall(item, k)
    /\ UNCHANGED sketch_vars
    /\ UNCHANGED wrapper_vars

SpecHash == InitHash /\ [][NextHash]_vars

(***************************************************************************)
(* The four sketch tables side by side, given the same set and increment   *)
(* calls: the list-backed table (table, total), ArrayBackedSketchTable     *)
(* with type code 'H', NumpyMatrixBackedSketchTable of numpy.uint16 and    *)
(* BitarrayBackedSketchTable, whose rows are sequences of bits.            *)
(***************************************************************************)
\* the bits of one byte as bitarray.frombytes lays them out (endian 'big'):
\* most significant bit first
ByteBits(b) == [k \in 1..8 |-> (b \div (2 ^ (8 - k))) % 2]

\* the number a sequence of bits stands for, most significant bit first
RECURSIVE BitsValue(_)
BitsValue(s) ==
    IF Len(s) = 0 THEN 0
    ELSE 2 * BitsValue(SubSeq(s, 1, Len(s) - 1)) + s[Len(s)]

\* struct.pack(struct_format, value): the bytes of value in the byte order
\* of the machine (sys.byteorder)
StructPack(byteorder, bits, value) ==
    LET size == bits \div 8
    IN [k \in 1..size |->
           IF byteorder = "little" THEN (value \div (256 ^ (k - 1))) % 256
           ELSE (value \div (256 ^ (size - k))) % 256]

\* struct.unpack(struct_format, bytes)[0]
RECURSIVE StructUnpack(_, _)
StructUnpack(byteorder, bytes) ==
    IF Len(bytes) = 0 THEN 0
    ELSE IF byteorder = "little"
         THEN bytes[1] + 256 * StructUnpack(byteorder, Tail(bytes))
         ELSE 256 * StructUnpack(byteorder, SubSeq(bytes, 1, Len(bytes) - 1))
              + bytes[Len(bytes)]

\* BitarrayBackedSketchTable._to_bits
ToBits(byteorder, bits, value) ==
    LET bytes == StructPack(byteorder, bits, value)
    IN [k \in 1..bits |-> ByteBits(bytes[((k - 1) \div 8) + 1])[((k - 1) % 8) + 1]]

\* bitarray.tobytes, also the buffer struct.unpack reads
ToBytes(s) ==
    [k \in 1..(Len(s) \div 8) |-> BitsValue(SubSeq(s, 8 * (k - 1) + 1, 8 * k))]

\* BitarrayBackedSketchTable._bits_to_number
BitsToNumber(byteorder, s) == StructUnpack(byteorder, ToBytes(s))

\* BitarrayBackedSketchTable._get_value_from_bits
GetValueFromBits(rows, bits, index, i) ==
    SubSeq(rows[i], bits * index + 1, bits * index + bits)

\* BitarrayBackedSketchTable._set_value_to_bits: a slice assignment
SetValueToBits(rows, bits, binary_value, i, index) ==
    [rows EXCEPT ![i] = SubSeq(@, 1, bits * index) \o binary_value
                        \o SubSeq(@, bits * index + bits + 1, Len(@))]

\* BitarrayBackedSketchTable.get on b = [table, total, counter_size,
\* byteorder]
BitarrayGet(b, i, j) ==
    BitsToNumber(b.byteorder, GetValueFromBits(b.table, b.counter_size, j, i))

\* BitarrayBackedSketchTable.set: ValueError from 2^counter_size on, and
\* struct.error from struct.pack below 0
BitarraySet(b, i, j, value) ==
    IF value >= 2 ^ b.counter_size \/ value < 0
    THEN [b |-> b, raised |-> TRUE]
    ELSE [b |-> [b EXCEPT !.table =
                    SetValueToBits(b.table, b.counter_size,
                                   ToBits(b.byteorder, b.counter_size, value),
                                   i, j)],
          raised |-> FALSE]

\* BitarrayBackedSketchTable.increment
BitarrayIncrement(b, i, j, v) ==
    LET counted == [b EXCEPT !.total = @ + 1]
        value == v + BitarrayGet(counted, i, j)
        st == BitarraySet(counted, i, j, value)
    IN [b |-> st.b, raised |-> st.raised, value |-> value]

\* reduce(lambda a, b: a + b, rows) for rows i..d
RECURSIVE Reduce(_, _, _)
Reduce(rows, i, d) ==
    IF i > d THEN << >> ELSE rows[i] \o Reduce(rows, i + 1, d)

\* SketchTable.to_vector on a table whose rows are lists or arrays
ToVector(t, d, w) ==
    Reduce([i \in 1..d |-> [k \in 1..w |-> t[i][k - 1]]], 1, d)

\* a reshape that reads the matrix column by column
NumpyToVectorByColumn(t, d, w) ==
    [k \in 1..(d * w) |-> t[((k - 1) % d) + 1][(k - 1) \div d]]

\* NumpyMatrixBackedSketchTable.to_vector: numpy.reshape(self.table, -1)
\* reads the matrix row by row
NumpyToVector(t, d, w) ==
    [k \in 1..(d * w) |-> t[((k - 1) \div w) + 1][(k - 1) % w]]

\* struct.unpack(self.struct_format * self.width, table_row)
UnpackRow(byteorder, bits, w, table_row) ==
    LET bytes == ToBytes(table_row)
        size == bits \div 8
    IN [k \in 1..w |->
           StructUnpack(byteorder, SubSeq(bytes, size * (k - 1) + 1, size * k))]

\* BitarrayBackedSketchTable.to_vector
BitarrayToVector(b, d, w) ==
    Reduce([i \in 1..d |->
               UnpackRow(b.byteorder, b.counter_size, w, b.table[i])], 1, d)

\* the table sizes, the values handed to set and the deltas handed to
\* increment
BackendSizes == {[depth |-> 1, width |-> 2], [depth |-> 2, width |-> 3]}
SetValues == {1, 258}
Deltas == {1, 2}

\* the counters of the bit-packed table and the byte order of the machine
BitarrayKinds ==
    {[counter_size |-> 8, byteorder |-> "little"],
     [counter_size |-> 16, byteorder |-> "little"],
     [counter_size |-> 16, byteorder |-> "big"]}

\* at most MaxCalls calls are made on the tables
MaxCalls == 2

\* the classes of the tables kept beside the list-backed table
SizedClasses == {"array", "numpy", "bitarray"}

\* the bits of a counter of the table of class c
BackendBits(c) == IF c = "bitarray" THEN backends.bitarray.counter_size ELSE 16

\* get(i, j) of the table of class c
BackendGet(b, c, i, j) ==
    IF c = "bitarray" THEN BitarrayGet(b.bitarray, i, j)
    ELSE TableGet(b[c].table, i, j)

\* to_vector() of the table of class c
BackendToVector(c) ==
    CASE c = "list" -> ToVector(table, depth, width)
      [] c = "array" -> ToVector(backends.array.table, depth, width)
      [] c = "numpy" -> NumpyToVector(backends.numpy.table, depth, width)
      [] c = "bitarray" -> BitarrayToVector(backends.bitarray, depth, width)

\* table_class(depth, width) for each of the four classes
InitBackends ==
    /\ \E size \in BackendSizes : depth = size.depth /\ width = size.width
    /\ hashes = [x \in Items |-> [i \in 1..depth |-> 0]]
    /\ updater = "naive"
    /\ lossy_kind = "none" /\ window_size = 0
    /\ n = 1
    /\ InitCommon
    /\ InitListBacked
    /\ InitTopN
    /\ hash_kind = "naive"
    /\ InitGenerator
    /\ \E kind \in BitarrayKinds :
           backends =
               [array |-> [table |-> EmptyTable(depth, width), total |-> 0],
                numpy |-> [table |-> EmptyTable(depth, width), total |-> 0],
                bitarray |->
                    [table |-> [i \in 1..depth |->
                                   [k \in 1..(width * kind.counter_size) |-> 0]],
                     total |-> 0,
                     counter_size |-> kind.counter_size,
                     byteorder |-> kind.byteorder]]
    /\ table_call = NoTableCall
    /\ sketches = << >>
    /\ hybrid = NoHybrid

\* what a call leaves unchanged: everything but the tables
TablesOnly ==
    /\ UNCHANGED << depth, width, hashes, updater, lossy_kind, window_size,
                    lossy_count, window_count, n, heap, heap_full, top_n,
                    pairs, true_count, last_est, last_call, least_count,
                    inserts, script, twin, table_class, counter_size,
                    sketch_class, query, sketches, hybrid >>
    /\ UNCHANGED hash_vars

\* set(i, j, value) on each of the four tables
SetCall(i, j, value) ==
    LET array == SizedSet("array", 16, backends.array.table, i, j, value)
        numpy == SizedSet("numpy", 16, backends.numpy.table, i, j, value)
        bitarray == BitarraySet(backends.bitarray, i, j, value)
    IN /\ table_call.calls < MaxCalls
       /\ table' = TableSet(table, i, j, value)
       /\ total' = total
       /\ backends' = [array |-> [backends.array EXCEPT !.table = array.table],
                       numpy |-> [backends.numpy EXCEPT !.table = numpy.table],
                       bitarray |-> bitarray.b]
       /\ table_call' =
              [op |-> "set", row |-> i, col |-> j, value |-> value,
               ret |-> [list |-> [raised |-> FALSE, value |-> 0],
                        array |-> [raised |-> array.raised, value |-> 0],
                        numpy |-> [raised |-> numpy.raised, value |-> 0],
                        bitarray |-> [raised |-> bitarray.raised,
                                      value |-> 0]],
               calls |-> table_call.calls + 1,
               peak |-> IF value > table_call.peak THEN value
                        ELSE table_call.peak]
       /\ TablesOnly

\* increment(i, j, value) on each of the four tables
IncrementCall(i, j, value) ==
    LET list == TableIncrement([table |-> table, total |-> total], i, j, value)
        array == SizedIncrement("array", 16, backends.array, i, j, value)
        numpy == SizedIncrement("numpy", 16, backends.numpy, i, j, value)
        bitarray == BitarrayIncrement(backends.bitarray, i, j, value)
        new == TableGet(list.table, i, j)
    IN /\ table_call.calls < MaxCalls
       /\ table' = list.table
       /\ total' = list.total
       /\ backends' = [array |-> [table |-> array.table, total |-> array.total],
                       numpy |-> [table |-> numpy.table, total |-> numpy.total],
                       bitarray |-> bitarray.b]
       /\ table_call' =
              [op |-> "increment", row |-> i, col |-> j, value |-> value,
               ret |-> [list |-> [raised |-> FALSE, value |-> new],
                        array |-> [raised |-> array.raised,
                                   value |-> array.value],
                        numpy |-> [raised |-> numpy.raised,
                                   value |-> numpy.value],
                        bitarray |-> [raised |-> bitarray.raised,
                                      value |-> bitarray.value]],
               calls |-> table_call.calls + 1,
               peak |-> IF new > table_call.peak THEN new
                        ELSE table_call.peak]
       /\ TablesOnly

NextBackends ==
    \/ \E i \in 1..depth, j \in 0..(width - 1), value \in SetValues :
           SetCall(i, j, value)
    \/ \E i \in 1..depth, j \in 0..(width - 1), value \in Deltas :
           IncrementCall(i, j, value)

SpecBackends == InitBackends /\ [][NextBackends]_vars

(***************************************************************************)
(* MultiHashPairTopNCMSketch: copies of HashPairCMSketch of one depth and  *)
(* width, each with its own table, hash functions and tracker of           *)
(* DEFAULT_N items, under the tracker of the multi-copy sketch (n, heap,   *)
(* heap_full, top_n, pairs). A lossy strategy is handed to every copy as   *)
(* the one instance that was built (lossy_count, window_count).            *)
(***************************************************************************)
DEFAULT_N == 100

\* the numbers of copies and the depths explored
MultiSizes == {[count |-> 1, depth |-> 2], [count |-> 2, depth |-> 1]}

\* the sketch c with the table and total that self.updater left in up and
\* the tracker tr that _update_top_n left
Tracked(c, up, tr) ==
    [hashes |-> c.hashes, table |-> up.table, total |-> up.total,
     heap |-> tr.heap, heap_full |-> tr.heap_full, top_n |-> tr.top_n,
     pairs |-> tr.pairs]

\* TopNCountMinSketch.insert from the return of self.updater on: up is what
\* the updater returned, after the lossy strategy as self.lossy left it
Updated(c, after, cap, item, up) ==
    IF up.raised
    THEN [sketch |-> [c EXCEPT !.table = up.table, !.total = up.total],
          lossy |-> after, ret |-> 0, raised |-> TRUE]
    ELSE [sketch |-> Tracked(c, up,
                             UpdateTopN([heap |-> c.heap,
                                         heap_full |-> c.heap_full,
                                         top_n |-> c.top_n,
                                         pairs |-> c.pairs],
                                        cap, item, up.ret)),
          lossy |-> after, ret |-> up.ret, raised |-> FALSE]

\* TopNCountMinSketch.insert(item, count) on the sketch c = [hashes, table,
\* total, heap, heap_full, top_n, pairs] of depth d tracking cap items, with
\* update strategy u and the lossy strategy ly = [kind, window_size, count,
\* window_count]: the sketch and the lossy strategy after the call, the
\* value returned, and whether the call raised
SketchInsert(c, ly, u, d, cap, item, count) ==
    LET ls == LossyCall(ly.kind, ly.window_size, ly.count, ly.window_count,
                        c.table)
    IN Updated(c, [ly EXCEPT !.count = ls.count,
                             !.window_count = ls.window_count],
               cap, item,
               Update(u, ls.table, c.total, c.hashes[item], count, d))

\* an insert that stops after the first copy it is given
CopyInsertedOnly(cs, k, u, d, item, count, r) ==
    [sketches |-> [cs EXCEPT ![k] = r.sketch], lossy |-> r.lossy,
     values |-> IF r.raised THEN << >> ELSE << r.ret >>,
     raised |-> r.raised]

\* [sketch.insert(item, count) for sketch in self.sketches], copies k..: the
\* copies are called in turn, up to the first call that raises. CopyInserted
\* goes on from the outcome r of the insert into copy k.
RECURSIVE InsertCopies(_, _, _, _, _, _, _)
RECURSIVE CopyInserted(_, _, _, _, _, _, _)
CopyInserted(cs, k, u, d, item, count, r) ==
    IF r.raised
    THEN [sketches |-> [cs EXCEPT ![k] = r.sketch], lossy |-> r.lossy,
          values |-> << >>, raised |-> TRUE]
    ELSE [InsertCopies([cs EXCEPT ![k] = r.sketch], k + 1, r.lossy, u, d,
                       item, count)
             EXCEPT !.values = << r.ret >> \o @]

InsertCopies(cs, k, ly, u, d, item, count) ==
    IF k > Len(cs)
    THEN [sketches |-> cs, lossy |-> ly, values |-> << >>, raised |-> FALSE]
    ELSE CopyInserted(cs, k, u, d, item, count,
                      SketchInsert(cs[k], ly, u, d, DEFAULT_N, item, count))

\* a get that asks the first copy only
MultiGetFirst(cs, d, item) == Get(cs[1].table, cs[1].hashes[item], d)

\* MultiHashPairTopNCMSketch.get
MultiGet(cs, d, item) ==
    SeqMin([k \in 1..Len(cs) |-> Get(cs[k].table, cs[k].hashes[item], d)])

\* HashPairCMSketch.get of copy k
CopyGet(k, item) == Get(sketches[k].table, sketches[k].hashes[item], depth)

\* the lossy strategy instance the sketch was built with
Lossy == [kind |-> lossy_kind, window_size |-> window_size,
          count |-> lossy_count, window_count |-> window_count]

\* the lossy strategy ly after j calls of LossyUpdateStrategy.__call__:
\* count and window_count do not depend on the table handed in
RECURSIVE LossyAfter(_, _)
LossyAfter(ly, j) ==
    IF j = 0 THEN ly
    ELSE LET ls == LossyCall(ly.kind, ly.window_size, ly.count,
                             ly.window_count, << >>)
         IN LossyAfter([ly EXCEPT !.count = ls.count,
                                  !.window_count = ls.window_count], j - 1)

\* MultiHashPairTopNCMSketch.__init__: the base __init__ is not called, so
\* the sketch has no table and no hashing strategy of its own
InitMulti ==
    /\ width = 2
    /\ \E size \in MultiSizes :
           /\ depth = size.depth
           /\ sketches \in
                  [1..size.count ->
                      {[hashes |-> h, table |-> EmptyTable(depth, width),
                        total |-> 0, heap |-> << >>, heap_full |-> FALSE,
                        top_n |-> << >>, pairs |-> << >>] :
                           h \in HashChoices(depth, width)}]
    /\ hashes = [x \in Items |-> [i \in 1..depth |-> 0]]
    /\ updater \in {"naive", "conservative"}
    /\ \/ lossy_kind = "none" /\ window_size = 0
       \/ lossy_kind = "LCU-1" /\ window_size \in 1..MaxWindow
    /\ n \in 1..MaxN
    /\ InitCommon
    /\ InitListBacked
    /\ InitTopN
    /\ hash_kind = "double"
    /\ InitGenerator
    /\ backends = << >>
    /\ table_call = NoTableCall
    /\ hybrid = NoHybrid

\* MultiHashPairTopNCMSketch.insert(item, count) once the copies have been
\* called with the outcome r
CopiesInserted(item, count, r) ==
    LET new_min_count == SeqMin(r.values)
        tr == UpdateTopN(Tracker, n, item, new_min_count)
    IN /\ inserts < MaxInserts
       /\ inserts' = inserts + 1
       /\ sketches' = r.sketches
       /\ lossy_count' = r.lossy.count
       /\ window_count' = r.lossy.window_count
       /\ least_count' = Min2(least_count, count)
       /\ IF r.raised
          THEN /\ last_call' = [item |-> item, count |-> count, ret |-> 0,
                                raised |-> TRUE]
               /\ UNCHANGED << heap, heap_full, top_n, pairs, true_count,
                               last_est >>
          ELSE /\ last_call' = [item |-> item, count |-> count,
                                ret |-> new_min_count, raised |-> FALSE]
               /\ heap' = tr.heap
               /\ heap_full' = tr.heap_full
               /\ top_n' = tr.top_n
               /\ pairs' = tr.pairs
               /\ true_count' = [true_count EXCEPT ![item] = @ + count]
               /\ last_est' = (item :> new_min_count) @@ last_est
       /\ UNCHANGED << depth, width, hashes, updater, lossy_kind,
                       window_size, table, total, n, script, twin,
                       table_class, counter_size, sketch_class, query,
                       backends, table_call, hybrid >>
       /\ UNCHANGED hash_vars

\* MultiHashPairTopNCMSketch.insert(item, count)
MultiInsert(item, count) ==
    CopiesInserted(item, count,
                   InsertCopies(sketches, 1, Lossy, updater, depth, item,
                                count))

NextMulti == \E item \in Items, count \in Counts : MultiInsert(item, count)

SpecMulti == InitMulti /\ [][NextMulti]_vars

(***************************************************************************)
(* SketchCounterHybrid: a Counter of the inserts not yet handed to the     *)
(* wrapped TopNCountMinSketch (the sketch of the variables depth .. pairs).*)
(* hybrid.digested is the number of units of each item that a flush has    *)
(* inserted into the sketch, hybrid.ret the list the latest most_common    *)
(* returned.                                                               *)
(***************************************************************************)
\* the batch sizes of the hybrids explored
BatchSizes == {0, 1}

\* the wrapped sketch
Sketch == [hashes |-> hashes, table |-> table, total |-> total,
           heap |-> heap, heap_full |-> heap_full, top_n |-> top_n,
           pairs |-> pairs]

\* the orders in which a dict may hand out the keys S
Orders(S) ==
    {s \in [1..Cardinality(S) -> S] :
        \A i \in DOMAIN s : \A j \in DOMAIN s : i # j => s[i] # s[j]}

\* CountMinSketch.update(items, counts) from position k on: self.insert for
\* each pair in turn, up to the first insert that raises; rets are the
\* values the completed inserts returned. PairInserted goes on from the
\* outcome r of the insert of pair k.
RECURSIVE SketchUpdate(_, _, _, _, _, _, _, _)
RECURSIVE PairInserted(_, _, _, _, _, _, _)
PairInserted(u, d, cap, items, counts, k, r) ==
    IF r.raised
    THEN [sketch |-> r.sketch, lossy |-> r.lossy, rets |-> << >>,
          raised |-> TRUE]
    ELSE [SketchUpdate(r.sketch, r.lossy, u, d, cap, items, counts, k + 1)
             EXCEPT !.rets = << r.ret >> \o @]

SketchUpdate(c, ly, u, d, cap, items, counts, k) ==
    IF k > Len(items)
    THEN [sketch |-> c, lossy |-> ly, rets |-> << >>, raised |-> FALSE]
    ELSE PairInserted(u, d, cap, items, counts, k,
                      SketchInsert(c, ly, u, d, cap, items[k], counts[k]))

\* a flush that hands the sketch the buffered items without their counts
DigestCounterItems(counter, order) ==
    SketchUpdate(Sketch, Lossy, updater, depth, n, order,
                 [i \in DOMAIN order |-> 1], 1)

\* self.sketch.update(*zip(*self.counter.iteritems())) for a counter that
\* is not empty and hands out its keys in the given order
DigestCounter(counter, order) ==
    SketchUpdate(Sketch, Lossy, updater, depth, n, order,
                 [i \in DOMAIN order |-> counter[order[i]]], 1)

\* the state after _digest_counter has run on the counter with the outcome
\* r, in a call of insert (k = << >>) or of most_common(k), which goes on to
\* return the sketch's list: the counter is reset only when no insert raised
Digested(r, counter, current_batch, order, k) ==
    LET done == {order[i] : i \in 1..Len(r.rets)}
        at(x) == CHOOSE i \in 1..Len(r.rets) : order[i] = x
        ret == IF k = << >> \/ r.raised
               THEN << >>
               ELSE MostCommon(r.sketch.top_n, r.sketch.pairs, n, k[1])
    IN /\ table' = r.sketch.table
       /\ total' = r.sketch.total
       /\ heap' = r.sketch.heap
       /\ heap_full' = r.sketch.heap_full
       /\ top_n' = r.sketch.top_n
       /\ pairs' = r.sketch.pairs
       /\ lossy_count' = r.lossy.count
       /\ window_count' = r.lossy.window_count
       /\ last_est' = [x \in done |-> r.rets[at(x)]] @@ last_est
       /\ hybrid' = [hybrid EXCEPT
              !.counter = IF r.raised THEN counter ELSE << >>,
              !.current_batch = IF r.raised THEN current_batch ELSE 0,
              !.ret = ret,
              !.digested = [x \in Items |->
                               IF x \in done THEN @[x] + counter[x]
                               ELSE @[x]]]

\* a get that leaves out the counter
HybridGetSketchOnly(hy, t, h, d, item) == Get(t, h, d)

\* SketchCounterHybrid.get
HybridGet(hy, t, h, d, item) ==
    LET counter_out == IF item \in DOMAIN hy.counter /\ hy.counter[item] # 0
                       THEN hy.counter[item]
                       ELSE 0
    IN counter_out + Get(t, h, d)

\* SketchCounterHybrid(sketch, batch_size) around a new sketch
InitHybrid ==
    /\ depth \in Depths
    /\ width = 2
    /\ hashes \in HashChoices(depth, width)
    /\ updater \in {"naive", "conservative"}
    /\ \/ lossy_kind = "none" /\ window_size = 0
       \/ lossy_kind = "LCU-1" /\ window_size \in 1..MaxWindow
    /\ n \in 1..MaxN
    /\ InitCommon
    /\ InitListBacked
    /\ InitTopN
    /\ hash_kind = "naive"
    /\ InitGenerator
    /\ backends = << >>
    /\ table_call = NoTableCall
    /\ sketches = << >>
    /\ \E batch_size \in BatchSizes :
           hybrid = [NoHybrid EXCEPT !.batch_size = batch_size]

\* what no operation of the hybrid changes
HybridOnly ==
    /\ UNCHANGED << depth, width, hashes, updater, lossy_kind, window_size,
                    n, script, table_class, counter_size, sketch_class,
                    backends, table_call, sketches >>
    /\ UNCHANGED hash_vars

\* a second sketch with the same hash functions and update strategy and no
\* lossy strategy, which is given the insert directly (CountMinSketch.insert)
TwinInserted(item, count) ==
    LET up == Update(updater, twin.table, twin.total, hashes[item], count,
                     depth)
    IN [table |-> up.table, total |-> up.total]

\* an insert that only buffers and never flushes
HybridInsertNoFlush(item, count) ==
    /\ count >= 0
    /\ inserts < MaxInserts
    /\ inserts' = inserts + 1
    /\ true_count' = [true_count EXCEPT ![item] = @ + count]
    /\ least_count' = Min2(least_count, count)
    /\ query' = NoQuery
    /\ hybrid' = [hybrid EXCEPT
           !.counter = (item :> (IF item \in DOMAIN hybrid.counter
                                 THEN hybrid.counter[item] ELSE 0) + count)
                           @@ hybrid.counter,
           !.current_batch = @ + count,
           !.ret = << >>]
    /\ last_call' = [item |-> item, count |-> count, ret |-> 0,
                     raised |-> FALSE]
    /\ UNCHANGED << table, total, heap, heap_full, top_n, pairs,
                    lossy_count, window_count, last_est >>
    /\ twin' = TwinInserted(item, count)
    /\ HybridOnly

\* SketchCounterHybrid.insert(item, count) with a count of 0 or more; it
\* returns nothing, and raises when the flush it starts does
HybridInsert(item, count) ==
    LET counter == (item :> (IF item \in DOMAIN hybrid.counter
                             THEN hybrid.counter[item] ELSE 0) + count)
                       @@ hybrid.counter
        current_batch == hybrid.current_batch + count
    IN /\ count >= 0
       /\ inserts < MaxInserts
       /\ inserts' = inserts + 1
       /\ true_count' = [true_count EXCEPT ![item] = @ + count]
       /\ least_count' = Min2(least_count, count)
       /\ query' = NoQuery
       /\ IF current_batch > hybrid.batch_size
          THEN \E order \in Orders(DOMAIN counter) :
                   /\ Digested(DigestCounter(counter, order), counter,
                               current_batch, order, << >>)
                   /\ last_call' = [item |-> item, count |-> count,
                                    ret |-> 0,
                                    raised |-> hybrid'.counter # << >>]
          ELSE /\ hybrid' = [hybrid EXCEPT !.counter = counter,
                                           !.current_batch = current_batch,
                                           !.ret = << >>]
               /\ last_call' = [item |-> item, count |-> count, ret |-> 0,
                                raised |-> FALSE]
               /\ UNCHANGED << table, total, heap, heap_full, top_n, pairs,
                               lossy_count, window_count, last_est >>
       /\ twin' = TwinInserted(item, count)
       /\ HybridOnly

\* SketchCounterHybrid.most_common(k): with an empty counter zip(*[]) is
\* the empty list, self.sketch.update() lacks its argument and raises
\* TypeError; otherwise the counter is flushed and the sketch asked, unless
\* an insert of the flush raises and leaves the counter as it was
HybridMostCommon(k) ==
    IF hybrid.counter = << >>
    THEN Answer("most_common", FALSE, TRUE, 0)
    ELSE \E order \in Orders(DOMAIN hybrid.counter) :
             /\ Digested(DigestCounter(hybrid.counter, order),
                         hybrid.counter, hybrid.current_batch, order,
                         << k >>)
             /\ query' = [op |-> "most_common", fresh |-> FALSE,
                          raised |-> hybrid'.counter # << >>,
                          twice |-> 2 * Len(hybrid'.ret)]
             /\ UNCHANGED << true_count, last_call, least_count, inserts,
                             twin >>
             /\ HybridOnly

NextHybrid ==
    \/ \E item \in Items, count \in Counts : HybridInsert(item, count)
    \/ \E k \in {<< >>, << 1 >>} : HybridMostCommon(k)

SpecHybrid == InitHybrid /\ [][NextHybrid]_vars

(***************************************************************************)
(* Properties.                                                             *)
(***************************************************************************)
\* CountMinSketch.get of item x on the sketch proper and on the twin
GetItem(x) == Get(table, hashes[x], depth)
TwinGetItem(x) == Get(twin.table, hashes[x], depth)

NoLossy == lossy_kind = "none"

\* C1 (one-sided error): without a lossy strategy and with only positive
\* counts inserted, get(x) is at least the sum of the counts inserted for x,
\* for every item x.
C1_OneSidedError ==
    (NoLossy /\ least_count > 0) =>
        \A x \in Items : GetItem(x) >= true_count[x]

\* an inserted item whose estimate exceeds its true count
C1_Witness ==
    /\ NoLossy /\ least_count > 0
    /\ \E x \in Items : true_count[x] > 0 /\ GetItem(x) > true_count[x]

\* C2 (monotonicity): without a lossy strategy an insert with count >= 0
\* decreases no table counter and no item's get.
C2_Monotone ==
    [][(NoLossy /\ last_call'.count >= 0) =>
          /\ \A i \in 1..depth : \A j \in 0..(width - 1) :
                 table'[i][j] >= table[i][j]
          /\ \A y \in Items :
                 Get(table', hashes[y], depth) >= GetItem(y)]_vars

\* an insert with a positive count has raised the estimate of another item
C2_Witness ==
    /\ NoLossy /\ inserts > 0 /\ least_count >= 0
    /\ last_call.count > 0
    /\ \E y \in Items : y # last_call.item /\ GetItem(y) > true_count[y]

\* C3 (conservative <= naive): after every prefix of a stream of inserts
\* with non-negative counts, the conservative sketch's get(x) is at most the
\* get(x) of the naive sketch with the same hash functions, for every x.
C3_ConservativeLeNaive ==
    \A x \in Items : GetItem(x) <= TwinGetItem(x)

\* the conservative estimate of some item is strictly lower
C3_Witness ==
    /\ updater = "conservative" /\ inserts > 0
    /\ \E x \in Items : GetItem(x) < TwinGetItem(x)

\* C4 (return value of insert): the value insert(x, c) returns is get(x)
\* right after the insert.
C4_InsertReturnsGet ==
    (inserts > 0 /\ ~last_call.raised) =>
        last_call.ret = GetItem(last_call.item)

\* an insert has returned the least of counters that are not all equal
C4_Witness ==
    /\ inserts > 0 /\ ~last_call.raised
    /\ \E i \in 1..depth :
           table[i][hashes[last_call.item][i]] > last_call.ret

\* C5 (total accounting): without a lossy strategy table.total is the sum of
\* the counts of all inserts performed.
C5_TotalAccounting ==
    NoLossy => total = SumOver(true_count, Items)

\* the count stored for a tracked item, and the count of the heap's root
StoredCount(x) == pairs[top_n[x]][1]
RootCount == pairs[heap[1]][1]
TopNCounts == [x \in DOMAIN top_n |-> StoredCount(x)]

\* C6 (top-N bounded and coherent): the map and the heap have the same size,
\* at most n, and an item is a key of the map exactly when one heap entry
\* carries it, the map value being that entry.
C6_TopNCoherent ==
    /\ Cardinality(DOMAIN top_n) = Len(heap)
    /\ Len(heap) <= n
    /\ \A x \in Items :
           x \in DOMAIN top_n <=>
               Cardinality({p \in 1..Len(heap) : pairs[heap[p]][2] = x}) = 1
    /\ \A x \in DOMAIN top_n :
           /\ pairs[top_n[x]][2] = x
           /\ \E p \in 1..Len(heap) : heap[p] = top_n[x]

\* a full tracker of two or more items and an inserted item outside it
C6_Witness ==
    /\ n >= 2 /\ Len(heap) = n
    /\ \E x \in DOMAIN last_est : x \notin DOMAIN top_n

C8_FullTracker ==
    /\ [](Len(heap) = n => \A x \in DOMAIN top_n : StoredCount(x) >= RootCount)
    /\ [][(Len(heap) = n /\ ~last_call'.raised
             /\ last_call'.ret <= RootCount) =>
            /\ UNCHANGED << heap, top_n, pairs >>
            /\ last_call'.count > 0 => table' # table]_vars

\* an insert with a positive count whose item stayed outside the full tracker
C8_Witness ==
    /\ Len(heap) = n /\ inserts > 0 /\ ~last_call.raised
    /\ last_call.count > 0
    /\ last_call.item \notin DOMAIN top_n
    /\ last_call.ret <= RootCount

\* C9 (eviction rule): when the tracker is full and the insert of an
\* untracked item returns more than the root's count, the root entry leaves
\* heap and map, the new item's entry joins them and no other entry changes;
\* with n = 2, no collisions and the stream a,a,b,b,b,c,c,c,c, a is evicted
\* at c's third insert and the map ends as {b: 3, c: 4}.
C9_Eviction ==
    /\ [][(Len(heap) = n /\ ~last_call'.raised
             /\ last_call'.item \notin DOMAIN top_n
             /\ last_call'.ret > RootCount) =>
            LET root == heap[1]
                x == last_call'.item
            IN /\ DOMAIN top_n' = (DOMAIN top_n \ {pairs[root][2]}) \cup {x}
               /\ pairs'[top_n'[x]] = << last_call'.ret, x >>
               /\ \A y \in DOMAIN top_n \ {pairs[root][2]} :
                      /\ top_n'[y] = top_n[y]
                      /\ pairs'[top_n'[y]] = pairs[top_n[y]]
               /\ Len(heap') = Len(heap)
               /\ Range(heap') = (Range(heap) \ {root}) \cup {top_n'[x]}]_vars
    /\ []((n = 2 /\ NoLossy /\ NoCollisions(hashes, depth)) =>
            /\ script.s3 = 7 => 1 \in DOMAIN top_n
            /\ script.s3 = 8 => 1 \notin DOMAIN top_n /\ 3 \in DOMAIN top_n
            /\ script.s3 = 9 => TopNCounts = (2 :> 3) @@ (3 :> 4))

\* right after c's third insert of the stream, a is gone
C9_Witness ==
    /\ n = 2 /\ NoLossy /\ NoCollisions(hashes, depth)
    /\ script.s3 = 8
    /\ 1 \notin DOMAIN top_n

\* the arguments of most_common: None and 0..n+1
Ks == {<< >>} \cup {<< k >> : k \in 0..(n + 1)}

\* C10 (most_common): most_common(k) lists tracked (item, count) pairs by
\* descending count, the first min(k, n) of them (n for k = None or k > n),
\* those left out having no larger count; with no collisions and n >= 3 the
\* stream a,a,a,b,b,c gives most_common(3) = (a,3),(b,2),(c,1).
C10_MostCommon ==
    /\ \A k \in Ks :
          LET r == MostCommon(top_n, pairs, n, k)
              lim == IF k = << >> \/ k[1] > n THEN n ELSE k[1]
          IN /\ Len(r) = Min2(lim, Cardinality(DOMAIN top_n))
             /\ \A i \in 1..Len(r) :
                    /\ r[i][1] \in DOMAIN top_n
                    /\ r[i][2] = StoredCount(r[i][1])
             /\ \A i \in 1..Len(r), j \in 1..Len(r) :
                    i < j => r[i][2] >= r[j][2] /\ r[i][1] # r[j][1]
             /\ \A x \in DOMAIN top_n :
                    (\A i \in 1..Len(r) : r[i][1] # x) =>
                        \A i \in 1..Len(r) : r[i][2] >= StoredCount(x)
    /\ (script.s2 = 6 /\ n >= 3 /\ NoLossy /\ NoCollisions(hashes, depth)) =>
           MostCommon(top_n, pairs, n, << 3 >>)
               = << << 1, 3 >>, << 2, 2 >>, << 3, 1 >> >>

\* the stream a,a,a,b,b,c has been inserted into a collision-free sketch
C10_Witness ==
    /\ script.s2 = 6 /\ n >= 3 /\ NoLossy /\ NoCollisions(hashes, depth)
    /\ Len(MostCommon(top_n, pairs, n, << 2 >>)) = 2

\* C11 (lossy window timing): under a lossy strategy of window size
\* floor(1 / gamma), after k inserts window_count is floor(k / floor(1 / gamma)):
\* a window closes after every floor(1 / gamma) inserts.
C11_WindowTiming ==
    ~NoLossy => window_count = inserts \div window_size

\* C12 (lossy decrement effect): an insert that closes a window leaves every
\* counter it does not update one lower when the counter c had
\* 0 < c <= tau(window_count), and as it was otherwise.
C12_LossyDecrement ==
    [][window_count' = window_count + 1 =>
          \A i \in 1..depth : \A j \in 0..(width - 1) :
              j # hashes[last_call'.item][i] =>
                  table'[i][j] =
                      IF InBounds(table[i][j], 0,
                                  ThresholdFunc(lossy_kind, window_count'))
                      THEN table[i][j] - 1
                      ELSE table[i][j]]_vars

\* C13 (lossy floor): under every lossy strategy, after inserts with positive
\* counts only, no table counter is negative.
C13_LossyFloor ==
    (~NoLossy /\ least_count > 0) =>
        \A i \in 1..depth : \A j \in 0..(width - 1) : table[i][j] >= 0

\* a window has closed over a table that holds a counter of 0
C13_Witness ==
    /\ ~NoLossy /\ least_count > 0 /\ window_count > 0
    /\ \E i \in 1..depth : \E j \in 0..(width - 1) : table[i][j] = 0
    /\ \E i \in 1..depth : \E j \in 0..(width - 1) : table[i][j] > 0

\* the sketch and stream of scenario S5, at the end of the stream
S5Done ==
    /\ S5Lossy /\ script.s5 = Len(StreamS5)
    /\ \A i \in 1..depth : hashes[1][i] # hashes[2][i]

\* C14 as stated (scenario S5): LCU-1 with gamma = 0.25, a and b sharing no
\* counter, ten inserts of a then three of b: get(b) = 0 at the end.
C14_ScenarioS5AsStated ==
    S5Done => GetItem(2) = 0

\* C14 amended: the same sketch and stream end with get(b) = 3.
C14_ScenarioS5 ==
    S5Done => GetItem(2) = 3

\* the end of the stream of S5, two windows closed
C14_Witness ==
    S5Done /\ window_count = 2 /\ inserts = 13

\* C15 (negative count under conservative update): the insert raises and
\* changes nothing: table, total, tracker and the lossy strategy's count and
\* window_count are as before the call.
C15_NegativeCountAtomic ==
    [][(updater = "conservative" /\ inserts' = inserts + 1
          /\ last_call'.count < 0) =>
            /\ last_call'.raised
            /\ UNCHANGED << table, total, heap, heap_full, top_n, pairs,
                            lossy_count, window_count >>]_vars

\* an insert step whose item has a counter that the count takes to 2^bits
\* or beyond
Overflowing ==
    /\ inserts' = inserts + 1
    /\ LET h == hashes[last_call'.item]
           limit == 2 ^ counter_size
       IN IF updater = "naive"
          THEN \E i \in 1..depth : table[i][h[i]] + last_call'.count >= limit
          ELSE Get(table, h, depth) + last_call'.count >= limit

\* C16 (overflow is atomic): on the bit-packed table an insert during which
\* a counter would reach 2^counter_bits fails and leaves every counter,
\* table.total and the tracker as they were.
C16_OverflowAtomic ==
    [][(table_class = "bitarray" /\ Overflowing) =>
          /\ last_call'.raised
          /\ UNCHANGED << table, total, heap, heap_full, top_n, pairs >>]_vars

\* C17 (no silent wrap): on the fixed-width array, the numpy matrix and the
\* bit-packed table an insert that would take a counter to 2^bits or beyond
\* fails.
C17_OverflowFails ==
    [][(table_class \in {"array", "numpy", "bitarray"} /\ Overflowing) =>
          last_call'.raised]_vars

\* C18 (queries never fail): get, inner_product and most_common return
\* without raising in every reachable state, for inserted and never-inserted
\* items, and get of a never-inserted item is not negative.
C18_QueriesNeverFail ==
    query.op # "none" =>
        /\ ~query.raised
        /\ (query.op = "get" /\ query.fresh) => query.twice >= 0

\* C19 (hash range): both hashing strategies return exactly depth column
\* indices, each in 0..width-1, also for items with a negative integer hash
\* x; index i (from 0) is (h1(x) + i * h2(x)) mod width under double hashing
\* and ((a_i * x + b_i) mod p) mod width under naive hashing.
C19_HashRange ==
    hash_out.called =>
        LET x == PyHash(hash_out.item)
            p == ARBITRARY_LARGE_PRIME_NUMBER
            cols == hash_out.cols
            k == hash_out.copy
        IN /\ DOMAIN cols = 1..depth
           /\ \A i \in 1..depth : cols[i] \in 0..(width - 1)
           /\ hash_kind = "naive" =>
                  \A i \in 1..depth :
                      cols[i] = ((functions[i].a * x + functions[i].b) % p)
                                    % width
           /\ hash_kind = "double" =>
                  LET h1 == (functions[2 * k - 1].a * x
                               + functions[2 * k - 1].b) % p
                      h2 == (functions[2 * k].a * x + functions[2 * k].b) % p
                  IN \A i \in 0..(depth - 1) :
                         cols[i + 1] = (h1 + i * h2) % width

\* an item with a negative integer hash, hashed to columns that differ
C19_Witness ==
    /\ hash_out.called /\ PyHash(hash_out.item) < 0
    /\ \E i \in 1..depth : hash_out.cols[i] # hash_out.cols[1]
    /\ \E i \in 1..Len(functions) :
           functions[i].a * PyHash(hash_out.item) + functions[i].b < 0

\* C20 (distinct hash functions): no two functions drawn from one generator
\* have the same (a, b), with a in 1..p-1 and b in 0..p-1; so the h1 and h2
\* of all copies of a multi-copy sketch are pairwise distinct.
C20_DistinctDraws ==
    /\ \A i \in 1..Len(functions) :
           /\ functions[i].a \in 1..(ARBITRARY_LARGE_PRIME_NUMBER - 1)
           /\ functions[i].b \in 0..(ARBITRARY_LARGE_PRIME_NUMBER - 1)
    /\ \A i \in 1..Len(functions), j \in 1..Len(functions) :
           i # j => functions[i] # functions[j]

\* two copies of the multi-copy sketch have drawn their four functions, two
\* of which share a coordinate
C20_Witness ==
    /\ Len(functions) >= 4
    /\ \E i \in 1..Len(functions), j \in 1..Len(functions) :
           i # j /\ functions[i].a = functions[j].a

\* C29 (top-N dominance): without a lossy strategy and with only positive
\* counts inserted, the latest estimate of every inserted item outside top_n
\* is at most the stored count of every tracked item, and the count of the
\* root of a full tracker never decreases.
C29_TopNDominance ==
    /\ []((NoLossy /\ least_count > 0) =>
            \A y \in DOMAIN last_est \ DOMAIN top_n :
                \A x \in DOMAIN top_n : last_est[y] <= StoredCount(x))
    /\ [][(NoLossy /\ least_count' > 0 /\ heap_full /\ inserts' = inserts + 1)
            => pairs'[heap'[1]][1] >= RootCount]_vars

\* an item was evicted and every tracked count is now above its estimate
C29_Witness ==
    /\ NoLossy /\ least_count > 0 /\ heap_full
    /\ \E y \in DOMAIN last_est \ DOMAIN top_n : last_est[y] < RootCount
    /\ \E x \in DOMAIN top_n : StoredCount(x) > RootCount

\* the counters of the latest insert's item, row by row
LastCounters == [i \in 1..depth |-> table[i][hashes[last_call.item][i]]]

\* C30 (conservative update step): with cur[i] the counter of row i at the
\* item's column when the update starts and m = min(cur) + count, count >= 0,
\* the update leaves m in row i when cur[i] < m and cur[i] otherwise, changes
\* no other counter and returns m; with count = 0 the table is as before.
C30_ConservativeStep ==
    [][(updater = "conservative" /\ inserts' = inserts + 1
          /\ last_call'.count >= 0) =>
          LET h == hashes[last_call'.item]
              before == LossyCall(lossy_kind, window_size, lossy_count,
                                  window_count, table).table
              cur == [i \in 1..depth |-> before[i][h[i]]]
              m == SeqMin(cur) + last_call'.count
          IN /\ ~last_call'.raised
             /\ last_call'.ret = m
             /\ \A i \in 1..depth : \A j \in 0..(width - 1) :
                    table'[i][j] = IF j = h[i] /\ cur[i] < m THEN m
                                   ELSE before[i][j]
             /\ last_call'.count = 0 => table' = table]_vars

\* a conservative insert with a positive count has raised one row of the
\* item and left another row, which was higher, as it was
C30_Witness ==
    /\ updater = "conservative" /\ inserts > 0 /\ ~last_call.raised
    /\ last_call.count > 0
    /\ \E i \in 1..depth : LastCounters[i] = last_call.ret
    /\ \E i \in 1..depth : LastCounters[i] > last_call.ret

\* CountMeanMinSketch.get of item x on the sketch's table
CountMeanGetItem(x) ==
    CountMeanGet(updater, table, total, hashes[x], depth, width)

\* C24 (count-mean refinement): on every table of width 2 or more and for
\* every item x, the count-mean-min get(x) returns a number that is at most
\* the count-min get(x) on the same table and hash functions.
C24_CountMeanRefinement ==
    width >= 2 =>
        \A x \in Items :
            /\ ~CountMeanGetItem(x).raised
            /\ CountMeanGetItem(x).twice <= 2 * GetItem(x)

\* a count-mean-min sketch whose get of an inserted item is strictly below
\* the count-min get, and whose get of another item is equal to it
C24_Witness ==
    /\ sketch_class = "CountMeanMinSketch" /\ width >= 2
    /\ \E x \in DOMAIN last_est : CountMeanGetItem(x).twice < 2 * GetItem(x)
    /\ \E x \in Items : CountMeanGetItem(x).twice = 2 * GetItem(x)

\* C25 (count-mean most_common): most_common(k) of the count-mean-min sketch
\* returns, without raising, one pair (item, refined get of the item) for
\* each tracked item, by descending refined estimate, cut to min(k, n) pairs
\* (n for k = None or k > n).
C25_CountMeanMostCommon ==
    sketch_class = "CountMeanMinSketch" =>
        \A k \in Ks :
            LET r == CountMeanMostCommon(top_n)
                lim == IF k = << >> \/ k[1] > n THEN n ELSE k[1]
            IN /\ ~r.raised
               /\ Len(r.result) = Min2(lim, Cardinality(DOMAIN top_n))
               /\ \A i \in 1..Len(r.result) :
                      /\ r.result[i][1] \in DOMAIN top_n
                      /\ 2 * r.result[i][2]
                             = CountMeanGetItem(r.result[i][1]).twice
               /\ \A i \in 1..Len(r.result), j \in 1..Len(r.result) :
                      i < j => /\ r.result[i][2] >= r.result[j][2]
                               /\ r.result[i][1] # r.result[j][1]

\* C28 (prime width): double hashing is never operated with a width that is
\* not prime: whenever a double hashing strategy hashes an item, the width
\* of its columns (h1 + i * h2) mod width is a prime number.
C28_PrimeWidth ==
    (hash_kind = "double" /\ hash_out.called) => IsPrime(width)

\* C21 (back-end equivalence): while no counter has been given a value of
\* 2^bits or more, the array, numpy and bit-packed tables hold in every cell
\* what the list-backed table holds, hold the same total, and returned from
\* the latest increment what the list-backed table returned; and a set on
\* one cell changes no other cell of any table.
C21_BackendEquivalence ==
    /\ [](\A c \in SizedClasses :
             table_call.peak < 2 ^ BackendBits(c) =>
                 /\ \A i \in 1..depth : \A j \in 0..(width - 1) :
                        BackendGet(backends, c, i, j) = table[i][j]
                 /\ backends[c].total = total
                 /\ table_call.op = "increment" =>
                        /\ ~table_call.ret[c].raised
                        /\ table_call.ret[c].value = table_call.ret.list.value)
    /\ [][table_call'.op = "set" /\ table_call'.calls = table_call.calls + 1 =>
            \A i \in 1..depth : \A j \in 0..(width - 1) :
                (i # table_call'.row \/ j # table_call'.col) =>
                    /\ table'[i][j] = table[i][j]
                    /\ \A c \in SizedClasses :
                           BackendGet(backends', c, i, j)
                               = BackendGet(backends, c, i, j)]_vars

\* C22 (to_vector): on each of the four tables to_vector() is a vector of
\* length depth * width whose element i * width + j (counted from 0) is
\* get(i, j), for every row i and column j.
C22_ToVector ==
    \A c \in SizedClasses \cup {"list"} :
        LET v == BackendToVector(c)
        IN /\ Len(v) = depth * width
           /\ \A i \in 1..depth : \A j \in 0..(width - 1) :
                  v[(i - 1) * width + j + 1] =
                      IF c = "list" THEN table[i][j]
                      ELSE BackendGet(backends, c, i, j)

\* tables of two rows that hold 258 in one cell of the second row and
\* another value in a cell of the first, the bit-packed counters being wide
\* enough
C22_Witness ==
    /\ table_call.calls > 0 /\ depth = 2
    /\ table_call.peak < 2 ^ BackendBits("bitarray")
    /\ \E j \in 0..(width - 1) : table[2][j] = 258
    /\ \E j \in 0..(width - 1) : table[1][j] \in {1, 2}
    /\ BackendToVector("bitarray") = BackendToVector("list")

\* C23 (multi-copy get): after any sequence of inserts, get(x) of the
\* multi-copy sketch is the least of its copies' get(x): at most the get(x)
\* of every copy, and equal to that of one of them.
C23_MultiGet ==
    \A x \in Items :
        /\ \A k \in 1..Len(sketches) :
               MultiGet(sketches, depth, x) <= CopyGet(k, x)
        /\ \E k \in 1..Len(sketches) :
               MultiGet(sketches, depth, x) = CopyGet(k, x)

\* two copies that give different estimates for an inserted item, the first
\* copy the larger one
C23_Witness ==
    /\ Len(sketches) = 2 /\ inserts > 0
    /\ \E x \in DOMAIN last_est :
           /\ CopyGet(2, x) < CopyGet(1, x)
           /\ MultiGet(sketches, depth, x) = CopyGet(2, x)

\* the exact buffered count of x
Buffered(x) ==
    IF x \in DOMAIN hybrid.counter THEN hybrid.counter[x] ELSE 0

\* get(x) of the hybrid
HybridGetItem(x) == HybridGet(hybrid, table, hashes[x], depth, x)

\* C26 (hybrid get): after any sequence of hybrid inserts with positive
\* counts, get(x) is the buffered count of x plus the wrapped sketch's
\* get(x), every inserted unit of x is either in the buffer or was inserted
\* into the sketch by a flush and never both, and get(x) is at least the
\* true count of x, before and after a flush.
C26_HybridGet ==
    least_count > 0 =>
        \A x \in Items :
            /\ HybridGetItem(x) = Buffered(x) + GetItem(x)
            /\ Buffered(x) + hybrid.digested[x] = true_count[x]
            /\ Buffered(x) >= 0 /\ hybrid.digested[x] >= 0
            /\ HybridGetItem(x) >= true_count[x]

\* an item with units in the buffer and units that a flush has inserted into
\* the sketch
C26_Witness ==
    /\ least_count > 0
    /\ \E x \in Items :
           /\ Buffered(x) > 0 /\ hybrid.digested[x] > 0
           /\ HybridGetItem(x) >= true_count[x]
           /\ true_count[x] = 2

\* C27 (hybrid most_common): in any state of the hybrid, an empty buffer
\* included, most_common(k) returns without raising the wrapped sketch's
\* most_common(k) after a flush: the buffer is empty, every unit inserted so
\* far has been inserted into the sketch and the list returned is the
\* sketch's.
C27_HybridMostCommon ==
    (query.op = "most_common" /\ least_count > 0) =>
        /\ ~query.raised
        /\ hybrid.counter = << >> /\ hybrid.current_batch = 0
        /\ \A x \in Items : hybrid.digested[x] = true_count[x]
        /\ \E k \in {<< >>, << 1 >>} :
               hybrid.ret = MostCommon(top_n, pairs, n, k)

\* what insert(x, c) with c > 0 leaves when it returns: every counter
\* outside x's cells is as the lossy strategy left it, x's cells are not
\* below what the lossy strategy left, get(x) >= c, the value returned is
\* get(x) on the table as it now is, and the tracker, when it took x or held
\* it already, stores that value
InsertOrdered ==
    LET x == last_call'.item
        h == hashes[x]
        before == LossyCall(lossy_kind, window_size, lossy_count,
                            window_count, table).table
        est == Get(table', h, depth)
    IN /\ \A i \in 1..depth : \A j \in 0..(width - 1) :
              IF j = h[i] THEN table'[i][j] >= before[i][j]
              ELSE table'[i][j] = before[i][j]
       /\ est >= last_call'.count
       /\ last_call'.ret = est
       /\ x \in DOMAIN top_n' => pairs'[top_n'[x]][1] = est
       /\ ~heap_full => x \in DOMAIN top_n'

\* C31 as stated (insert ordering): the steps of an insert run in the order
\* hash, lossy decrement, counter update, top-N update, so after any
\* insert(x, c) with c > 0 that returns, get(x) >= c, also when the insert
\* closed a lossy window, and the tracker has the estimate taken after the
\* decrement and the increment.
C31_InsertOrderAsStated ==
    [][(inserts' = inserts + 1 /\ last_call'.count > 0
          /\ ~last_call'.raised) => InsertOrdered]_vars

\* C31 amended: the same for an insert(x, c) with c > 0 after inserts with
\* counts of 0 or more only.
C31_InsertOrder ==
    [][(inserts' = inserts + 1 /\ last_call'.count > 0
          /\ ~last_call'.raised /\ least_count >= 0) => InsertOrdered]_vars

\* the latest insert had a positive count, closed a lossy window and left
\* its item in the tracker with the estimate it returned
C31_Witness ==
    /\ least_count >= 0 /\ last_call.count > 0 /\ ~last_call.raised
    /\ ~NoLossy /\ window_count > 0 /\ lossy_count = 0
    /\ last_call.item \in DOMAIN top_n
    /\ StoredCount(last_call.item) = GetItem(last_call.item)
    /\ GetItem(last_call.item) >= 2

\* what one insert(x, c) of the multi-copy sketch leaves when it returns:
\* copy k, called after k - 1 other copies, has had the one insert applied
\* to the table the lossy strategy left, the value returned is the least of
\* the copies' estimates of x, and the tracker, when it took x or held it
\* already, stores that value, which is get(x)
MultiInsertApplied ==
    LET x == last_call'.item
        c == last_call'.count
        est == [k \in 1..Len(sketches) |->
                   Get(sketches'[k].table, sketches[k].hashes[x], depth)]
    IN /\ \A k \in 1..Len(sketches) :
              LET ly == LossyAfter(Lossy, k - 1)
                  before == LossyCall(ly.kind, ly.window_size, ly.count,
                                      ly.window_count, sketches[k].table)
                  up == Update(updater, before.table, sketches[k].total,
                               sketches[k].hashes[x], c, depth)
              IN /\ sketches'[k].table = up.table
                 /\ sketches'[k].total = up.total
                 /\ sketches'[k].hashes = sketches[k].hashes
                 /\ x \in DOMAIN sketches'[k].top_n
       /\ last_call'.ret = SeqMin(est)
       /\ last_call'.ret = MultiGet(sketches', depth, x)
       /\ x \in DOMAIN top_n' =>
              pairs'[top_n'[x]][1] = MultiGet(sketches', depth, x)
       /\ ~heap_full => x \in DOMAIN top_n'

\* C32 as stated (multi-copy insert): one insert(item, count) that returns
\* has applied the insert to every copy exactly once, returned the least of
\* the copies' new estimates and given it to the multi-copy tracker, so that
\* a tracked item's stored count is get(item) right after its insert.
C32_MultiInsertAsStated ==
    [][(inserts' = inserts + 1 /\ ~last_call'.raised)
          => MultiInsertApplied]_vars

\* C32 amended: the same for an insert in a sequence of inserts with counts
\* of 0 or more.
C32_MultiInsert ==
    [][(inserts' = inserts + 1 /\ ~last_call'.raised /\ least_count' >= 0)
          => MultiInsertApplied]_vars

\* an insert into two copies that now disagree on its item has returned the
\* lower estimate, and the tracker holds an item with its current estimate
C32_Witness ==
    /\ Len(sketches) = 2 /\ inserts > 1 /\ least_count >= 0
    /\ ~last_call.raised /\ last_call.count > 0
    /\ last_call.ret = CopyGet(2, last_call.item)
    /\ CopyGet(2, last_call.item) < CopyGet(1, last_call.item)
    /\ \E x \in DOMAIN top_n : StoredCount(x) = MultiGet(sketches, depth, x)

\* C33 (lossy state per sketch): in a multi-copy sketch built with a lossy
\* strategy, one insert advances the count_in_window that each copy's lossy
\* strategy holds by exactly one call, so that each copy's window closes at
\* the inserts at which the window of a single sketch with the same gamma
\* closes.
C33_LossyPerCopy ==
    [][(inserts' = inserts + 1 /\ ~NoLossy) =>
          LET single == LossyAfter(Lossy, 1)
          IN /\ lossy_count' = single.count
             /\ window_count' = single.window_count]_vars

\* the sketch received a flush in this step: _digest_counter recorded
\* buffered units as digested
HybridFlushed == hybrid'.digested # hybrid.digested

\* C34 (hybrid batch invariant): after every hybrid insert with a positive
\* count returns, current_batch is the sum of the buffered counts and is at
\* most batch_size; the insert flushes exactly when the running total
\* exceeds batch_size, and right after a flush the buffer is empty and
\* current_batch is 0.
C34_HybridBatch ==
    [][(inserts' = inserts + 1 /\ last_call'.count > 0
        /\ ~last_call'.raised) =>
          /\ hybrid'.current_batch
                 = SumOver(hybrid'.counter, DOMAIN hybrid'.counter)
          /\ hybrid'.current_batch <= hybrid.batch_size
          /\ hybrid'.batch_size = hybrid.batch_size
          /\ HybridFlushed
                 <=> hybrid.current_batch + last_call'.count
                         > hybrid.batch_size
          /\ HybridFlushed =>
                 /\ hybrid'.counter = << >>
                 /\ hybrid'.current_batch = 0
                 /\ \A x \in Items :
                        hybrid'.digested[x] = hybrid.digested[x]
                            + (IF x \in DOMAIN hybrid.counter
                               THEN hybrid.counter[x] ELSE 0)
                            + (IF x = last_call'.item
                               THEN last_call'.count ELSE 0)
          /\ ~HybridFlushed =>
                 /\ last_call'.item \in DOMAIN hybrid'.counter
                 /\ UNCHANGED << table, total >>]_vars

\* the second of two positive inserts took the running total above a batch
\* size of 1 and flushed both buffered units into the sketch
C34_Witness ==
    /\ hybrid.batch_size = 1
    /\ inserts = 2
    /\ query = NoQuery
    /\ least_count > 0
    /\ hybrid.counter = << >>
    /\ hybrid.current_batch = 0
    /\ SumOver(hybrid.digested, Items) = 2
    /\ total = 2 * depth

\* the table after a naive insert of (x, c) into the table t
NaiveTable(t, x, c) == NaiveUpdate(t, 0, hashes[x], c, depth).table

\* C35 (naive update is order- and batching-independent): without a lossy
\* strategy, two naive inserts give the same table in either order, two
\* inserts of one item give the table of one insert with the summed count,
\* and whenever a hybrid flush has emptied the buffer the wrapped sketch's
\* table is the table of a sketch with the same hash functions that was
\* given the same inserts directly.
C35_NaiveBatching ==
    (updater = "naive" /\ NoLossy) =>
        /\ \A x \in Items, y \in Items, cx \in Counts, cy \in Counts :
               /\ NaiveTable(NaiveTable(table, x, cx), y, cy)
                      = NaiveTable(NaiveTable(table, y, cy), x, cx)
               /\ x = y =>
                      NaiveTable(NaiveTable(table, x, cx), x, cy)
                          = NaiveTable(table, x, cx + cy)
        /\ hybrid.counter = << >> => table = twin.table

\* a flush has merged two inserts of one item into one insert with count 2,
\* and the table is that of the sketch given the two inserts one by one
C35_Witness ==
    /\ updater = "naive"
    /\ NoLossy
    /\ hybrid.counter = << >>
    /\ inserts = 2
    /\ \E x \in Items :
           /\ hybrid.digested[x] = 2
           /\ TableGet(table, 1, hashes[x][1]) = 2
    /\ table = twin.table

\* sum(row) of row i of the table t
RowSum(t, i) == SumOver(t[i], DOMAIN t[i])

\* C36 (row-sum invariant): under naive update without a lossy strategy,
\* after any sequence of inserts each of the d rows of the table sums to the
\* sum of the counts of all inserts, so all rows have equal sums.
C36_RowSums ==
    (updater = "naive" /\ NoLossy) =>
        \A i \in 1..depth : RowSum(table, i) = SumOver(true_count, Items)

\* two items that share a counter in the first row and not in the second
\* were inserted under naive update: both rows sum to 2
C36_Witness ==
    /\ updater = "naive"
    /\ NoLossy
    /\ depth = 2
    /\ \E x \in Items, y \in Items :
           /\ x # y
           /\ true_count[x] = 1
           /\ true_count[y] = 1
           /\ hashes[x][1] = hashes[y][1]
           /\ hashes[x][2] # hashes[y][2]
           /\ TableGet(table, 1, hashes[x][1]) = 2
    /\ RowSum(table, 1) = 2
    /\ RowSum(table, 2) = 2

\* second_hash(item) of the last call of a double hashing strategy
SecondHash ==
    UniversalHash(functions[2 * hash_out.copy], GeneratorM,
                  PyHash(hash_out.item))

\* C37 (double-hashing distinctness): for a prime width w, a depth d <= w
\* and an item x, the d indices (h1(x) + i * h2(x)) mod w, i = 0..d-1, that
\* the double hashing strategy returns are pairwise distinct when
\* h2(x) mod w is not 0, and all equal when h2(x) mod w is 0.
C37_DoubleHashDistinct ==
    (hash_kind = "double" /\ hash_out.called /\ IsPrime(width)
     /\ depth <= width) =>
        /\ Len(hash_out.cols) = depth
        /\ SecondHash % width # 0 =>
               \A i \in 1..depth, j \in 1..depth :
                   i # j => hash_out.cols[i] # hash_out.cols[j]
        /\ SecondHash % width = 0 =>
               \A i \in 1..depth, j \in 1..depth :
                   hash_out.cols[i] = hash_out.cols[j]

\* a strategy of depth 3 and width 3 returned three different columns that
\* wrap around the width
C37_Witness ==
    /\ hash_kind = "double"
    /\ hash_out.called
    /\ width = 3
    /\ depth = 3
    /\ SecondHash = 2
    /\ hash_out.cols = << 1, 0, 2 >>

\* twice what get of a top-N sketch can return in a state
GetAnswers == {2 * Get(table, hashes[x], depth) : x \in Items}

\* C38 (queries are pure): get, inner_product_query and most_common of a
\* top-N or count-mean-min sketch leave every table counter, table.total,
\* the top-N map and heap, the lossy window state and the hash functions as
\* they were, so that a query returns the same when it is repeated; what
\* get returned is what get returns in the state it leaves.
C38_QueriesPure ==
    [][(inserts' = inserts /\ query'.op # "none") =>
          /\ UNCHANGED << table, total, top_n, heap, heap_full, pairs,
                          lossy_count, window_count, hashes, depth, width,
                          updater, n >>
          /\ (sketch_class = "TopNCountMinSketch" /\ query'.op = "get") =>
                 query'.twice \in GetAnswers']_vars

\* most_common was answered with one pair by a sketch whose lossy window
\* holds one item
C38_Witness ==
    /\ query.op = "most_common"
    /\ ~query.raised
    /\ query.twice = 2
    /\ inserts = 1
    /\ lossy_kind = "LCU-1"
    /\ lossy_count = 1
    /\ Len(heap) = 1
    /\ total > 0

\* C39 (n_largest): for every heap of a sketch and every k from 1 to the
\* heap's size, MinHeap.n_largest(k) returns k stored entries, and no stored
\* entry left out has a count above the count of an entry returned.
C39_NLargest ==
    \A c \in DOMAIN sketches :
        \A k \in 1..Len(sketches[c].heap) :
            LET stored == {sketches[c].pairs[sketches[c].heap[i]] :
                              i \in 1..Len(sketches[c].heap)}
                got == NLargest(sketches[c].pairs, sketches[c].heap, k)
                returned == {got[j] : j \in 1..Len(got)}
            IN /\ Len(got) = k
               /\ returned \subseteq stored
               /\ \A p \in stored \ returned :
                      \A q \in returned : p[1] <= q[1]

====
